---------------------------- MODULE Spec2Model ----------------------------
(***************************************************************************)
(* Control-flow narrowing core of the stc type checker:                    *)
(*   crates/stc_ts_file_analyzer/src/analyzer/control_flow.rs              *)
(*   crates/stc_ts_file_analyzer/src/analyzer/stmt/loops.rs                *)
(*                                                                         *)
(* The module holds three state machines over one set of variables:        *)
(*   AlgebraSpec  the CondFacts operators `+=` and `|` applied to inputs   *)
(*                drawn from a bounded set of CondFacts values;            *)
(*   TermSpec     is_switch_case_body_unconditional_termination applied    *)
(*                to bounded statement lists;                              *)
(*   Spec         the analyzer: the if, switch, conditional-expression and *)
(*                loop routines acting on cur_facts and ctx.in_unreachable.*)
(***************************************************************************)
EXTENDS Integers, Sequences, FiniteSets, TLC

VARIABLES
    alg_pc,          \* "init" | "add" | "or": which CondFacts operator ran
    alg_lhs,         \* left operand  (self)
    alg_rhs,         \* right operand (rhs)
    alg_out,         \* result of  lhs += rhs  or  lhs | rhs
    alg_swapped,     \* result of the same operator on (rhs, lhs)
    term_pc,         \* "init" | "done": whether the classifier has run
    term_body,       \* body: &[S], the statement list classified
    term_result,     \* the classifier's return value
    pc,              \* "idle" | "loop" | "done": the analyzer's position
    node,            \* the AST node handed to the analyzer
    cur_facts,       \* Analyzer::cur_facts
    ctx,             \* Analyzer::ctx (in_unreachable, should_store_truthy_for_access)
    scope_vars,      \* self.scope.vars: the actual type of each variable
    storage,         \* self.storage: the reported errors, in order
    entry,           \* cur_facts and ctx when the routine was entered
    locals,          \* the routine's local variables when it returned
    lp,              \* the loop analyzer's local variables while it iterates
    pat_pc,          \* "init" | "done": whether the pattern assignment has run
    pat_in,          \* its arguments, the context flags and the scope at entry
    scope,           \* self.scope: vars, the parent's vars, declaring
    pat_out,         \* its return value and the errors it reported
    fn_pc,           \* "init" | "removed" | "downcast" | "narrowed": the type routine that ran
    fn_in,           \* the arguments of the type routine
    fn_out           \* its return value

algVars == <<alg_pc, alg_lhs, alg_rhs, alg_out, alg_swapped>>
termVars == <<term_pc, term_body, term_result>>
anVars == <<pc, node, cur_facts, ctx, scope_vars, storage, entry, locals, lp>>
patVars == <<pat_pc, pat_in, scope, pat_out>>
fnVars == <<fn_pc, fn_in, fn_out>>
vars == <<algVars, termVars, anVars, patVars, fnVars>>

-----------------------------------------------------------------------------
(* Bounds of the model.                                                    *)

\* Longest `excludes` list of an input CondFacts.
MaxExcludes == 1

\* Longest statement list handed to the terminator classifier.
MaxStmts == 2

\* Most cases of a switch statement.
MaxCases == 3

\* Most recent passes of a loop kept in the pass log.
MaxPassLog == 2

\* Most candidate types handed to remove_child_types and downcast_types.
MaxCandidates == 2

-----------------------------------------------------------------------------
(* Types.  A type is a record of one shape: a keyword type has a name and  *)
(* no members, a union has members (which may themselves be unions).       *)

Kw(n) == [kind |-> "kw", name |-> n, types |-> <<>>, prevent |-> FALSE]

\* A literal type, a class, a tuple of element types, Array<elem>.
Lit(n) == [kind |-> "lit", name |-> n, types |-> <<>>, prevent |-> FALSE]
Class(n) == [kind |-> "class", name |-> n, types |-> <<>>, prevent |-> FALSE]
Tuple(elems) == [kind |-> "tuple", name |-> "", types |-> elems, prevent |-> FALSE]
Array(elem) == [kind |-> "array", name |-> "", types |-> <<elem>>, prevent |-> FALSE]

\* The type with metadata().prevent_converting_to_children set.
Marked(t) == [t EXCEPT !.prevent = TRUE]

\* Type::new_union(span, vec![..]): the union node over exactly these members.
NewUnion(ts) == [kind |-> "union", name |-> "", types |-> ts, prevent |-> FALSE]

TNever  == Kw("never")
TNull   == Kw("null")
TString == Kw("string")
TNumber == Kw("number")
TAny    == Kw("any")

IsUnion(t) == t.kind = "union"
IsNever(t) == t = TNever

\* ty.iter_union(): the members of a union, the type itself otherwise.
IterUnion(t) == IF IsUnion(t) THEN t.types ELSE <<t>>

SeqRange(s) == {s[i] : i \in 1..Len(s)}

\* The type with all metadata dropped.
RECURSIVE Unmark(_)
Unmark(t) ==
    [kind |-> t.kind, name |-> t.name, prevent |-> FALSE,
     types |-> [i \in 1..Len(t.types) |-> Unmark(t.types[i])]]

\* TypeEq::type_eq: structural equality that ignores spans and metadata.
type_eq(a, b) == Unmark(a) = Unmark(b)

\* Vec::dedup_type / the Fixer's scan: keep the first of type-equal members.
RECURSIVE DedupFrom(_, _)
DedupFrom(acc, s) ==
    IF s = <<>> THEN acc
    ELSE IF \E a \in SeqRange(acc) : type_eq(a, Head(s)) THEN DedupFrom(acc, Tail(s))
    ELSE DedupFrom(Append(acc, Head(s)), Tail(s))

DedupType(s) == DedupFrom(<<>>, s)

\* Fix::fix on a type: members are fixed first, nested unions are flattened,
\* `never` members and duplicates are dropped, and a union of no member is
\* `never`, of one member that member.
RECURSIVE Fix(_)
RECURSIVE FixMembers(_)
FixMembers(s) ==
    IF s = <<>> THEN <<>>
    ELSE LET h == Fix(Head(s))
         IN  (IF IsNever(h) THEN <<>> ELSE IterUnion(h)) \o FixMembers(Tail(s))

Fix(t) ==
    IF ~IsUnion(t) THEN [t EXCEPT !.types = [i \in 1..Len(t.types) |-> Fix(t.types[i])]]
    ELSE LET ms == DedupType(FixMembers(t.types))
         IN  IF Len(ms) = 0 THEN TNever
             ELSE IF Len(ms) = 1 THEN ms[1]
             ELSE NewUnion(ms)

-----------------------------------------------------------------------------
(* TypeFacts: a bitset, modelled as the set of its flags; `|` is union and *)
(* TypeFacts::None is the empty set.                                       *)

TypeFactsNone == {}
Truthy == {"Truthy"}
Falsy  == {"Falsy"}

-----------------------------------------------------------------------------
(* CondFacts: four maps.  A map is a function whose domain is its key set. *)

EmptyMap == [k \in {} |-> TNever]

CondFactsDefault ==
    [facts |-> EmptyMap, vars |-> EmptyMap, excludes |-> EmptyMap, types |-> EmptyMap]

\* HashMap::insert
MapInsert(m, k, v) == [j \in DOMAIN m \cup {k} |-> IF j = k THEN v ELSE m[j]]

\* impl Merge for TypeFacts
MergeTypeFacts(self, other) == self \cup other

MergeVec_dropOther(self, other) == self

\* impl Merge for Vec<T>
MergeVec(self, other) == self \o other

MergeType_keepSelf(self, r) == self

\* impl Merge for Type
MergeType(self, r) == NewUnion(<<self, r>>)

\* Merge::or, dispatched on the value type of the map.
Merge(ty, self, other) ==
    CASE ty = "TypeFacts" -> MergeTypeFacts(self, other)
      [] ty = "Type"      -> MergeType(self, other)
      [] ty = "Vec"       -> MergeVec(self, other)

\* CondFacts::or
CondFactsOr(ty, map, map2) ==
    [k \in DOMAIN map \cup DOMAIN map2 |->
        IF k \in DOMAIN map /\ k \in DOMAIN map2 THEN Merge(ty, map[k], map2[k])
        ELSE IF k \in DOMAIN map THEN map[k]
        ELSE map2[k]]

\* impl BitOr for CondFacts
BitOr(self, rhs) ==
    [facts    |-> CondFactsOr("TypeFacts", self.facts, rhs.facts),
     vars     |-> CondFactsOr("Type", self.vars, rhs.vars),
     types    |-> CondFactsOr("Type", self.types, rhs.types),
     excludes |-> CondFactsOr("Vec", self.excludes, rhs.excludes)]

AddVar_laterWins(prev, v) == v

\* The Occupied arm of `+=` on vars: push into a union, else union of
\* {prev, v}; then fix().
AddVar(prev, v) ==
    Fix(IF IsUnion(prev) THEN NewUnion(Append(prev.types, v))
        ELSE NewUnion(<<prev, v>>))

\* `+=` whose vars loop handles only the Occupied entries.
AddAssign_noVacant(self, rhs) ==
    [facts    |-> [k \in DOMAIN self.facts \cup DOMAIN rhs.facts |->
                     (IF k \in DOMAIN self.facts THEN self.facts[k] ELSE TypeFactsNone)
                     \cup (IF k \in DOMAIN rhs.facts THEN rhs.facts[k] ELSE TypeFactsNone)],
     types    |-> [k \in DOMAIN self.types \cup DOMAIN rhs.types |->
                     IF k \in DOMAIN rhs.types THEN rhs.types[k] ELSE self.types[k]],
     vars     |-> [k \in DOMAIN self.vars |->
                     IF k \in DOMAIN rhs.vars THEN AddVar(self.vars[k], rhs.vars[k])
                     ELSE self.vars[k]],
     excludes |-> [k \in DOMAIN self.excludes \cup DOMAIN rhs.excludes |->
                     (IF k \in DOMAIN self.excludes THEN self.excludes[k] ELSE <<>>)
                     \o (IF k \in DOMAIN rhs.excludes THEN rhs.excludes[k] ELSE <<>>)]]

\* impl AddAssign for CondFacts
AddAssign(self, rhs) ==
    [facts    |-> [k \in DOMAIN self.facts \cup DOMAIN rhs.facts |->
                     (IF k \in DOMAIN self.facts THEN self.facts[k] ELSE TypeFactsNone)
                     \cup (IF k \in DOMAIN rhs.facts THEN rhs.facts[k] ELSE TypeFactsNone)],
     types    |-> [k \in DOMAIN self.types \cup DOMAIN rhs.types |->
                     IF k \in DOMAIN rhs.types THEN rhs.types[k] ELSE self.types[k]],
     vars     |-> [k \in DOMAIN self.vars \cup DOMAIN rhs.vars |->
                     IF k \in DOMAIN self.vars /\ k \in DOMAIN rhs.vars
                         THEN AddVar(self.vars[k], rhs.vars[k])
                     ELSE IF k \in DOMAIN rhs.vars THEN rhs.vars[k]
                     ELSE self.vars[k]],
     excludes |-> [k \in DOMAIN self.excludes \cup DOMAIN rhs.excludes |->
                     (IF k \in DOMAIN self.excludes THEN self.excludes[k] ELSE <<>>)
                     \o (IF k \in DOMAIN rhs.excludes THEN rhs.excludes[k] ELSE <<>>)]]

\* override_vars_using with the occupied entry widened instead of replaced.
OverrideVarsUsing_widen(self, r) ==
    [self |-> [self EXCEPT !.vars =
                 [k \in DOMAIN self.vars \cup DOMAIN r.vars |->
                    IF k \in DOMAIN r.vars
                    THEN (IF k \in DOMAIN self.vars THEN AddVar(self.vars[k], r.vars[k])
                          ELSE r.vars[k])
                    ELSE self.vars[k]]],
     r    |-> [r EXCEPT !.vars = EmptyMap]]

\* CondFacts::override_vars_using: r.vars is drained into self.vars.
OverrideVarsUsing(self, r) ==
    [self |-> [self EXCEPT !.vars =
                 [k \in DOMAIN self.vars \cup DOMAIN r.vars |->
                    IF k \in DOMAIN r.vars THEN r.vars[k] ELSE self.vars[k]]],
     r    |-> [r EXCEPT !.vars = EmptyMap]]

\* Not for Facts with the true side kept on both sides.
Not_keepTrue(self) == [true_facts |-> self.true_facts, false_facts |-> self.true_facts]

\* impl Not for Facts
Not(self) == [true_facts |-> self.false_facts, false_facts |-> self.true_facts]

-----------------------------------------------------------------------------
(* Bounded inputs of the fact algebra.                                     *)

Names == {"x", "y"}
TypeIds == {"K"}

\* Sequences over S of length at most n.
RECURSIVE SeqsUpTo(_, _)
SeqsUpTo(S, n) ==
    IF n = 0 THEN {<<>>}
    ELSE LET shorter == SeqsUpTo(S, n - 1)
         IN  shorter \cup {Append(s, e) : s \in {q \in shorter : Len(q) = n - 1}, e \in S}

One(k, v) == [j \in {k} |-> v]

AlgFactsMaps == {EmptyMap, One("x", Truthy), One("x", Falsy), One("y", TypeFactsNone)}
AlgVarsMaps ==
    {EmptyMap, One("x", TString), One("x", TNull), One("y", TNumber),
     One("x", NewUnion(<<TString, TNull>>))}
AlgExcludesMaps ==
    {EmptyMap} \cup {One("x", s) : s \in SeqsUpTo({TNull, TString}, MaxExcludes)}
AlgTypesMaps == {EmptyMap, One("K", TString), One("K", TNumber)}

AlgCondFacts ==
    {[facts |-> f, vars |-> v, excludes |-> e, types |-> t] :
        f \in AlgFactsMaps, v \in AlgVarsMaps, e \in AlgExcludesMaps, t \in AlgTypesMaps}

-----------------------------------------------------------------------------
(* AlgebraSpec: apply `+=` or `|` once to a drawn pair of operands.        *)

AlgInit ==
    /\ alg_pc = "init"
    /\ alg_lhs \in AlgCondFacts
    /\ alg_rhs \in AlgCondFacts
    /\ alg_out = CondFactsDefault
    /\ alg_swapped = CondFactsDefault

ApplyAddAssign ==
    /\ alg_pc = "init"
    /\ alg_pc' = "add"
    /\ alg_out' = AddAssign(alg_lhs, alg_rhs)
    /\ alg_swapped' = AddAssign(alg_rhs, alg_lhs)
    /\ UNCHANGED <<alg_lhs, alg_rhs, termVars, anVars, patVars, fnVars>>

ApplyBitOr ==
    /\ alg_pc = "init"
    /\ alg_pc' = "or"
    /\ alg_out' = BitOr(alg_lhs, alg_rhs)
    /\ alg_swapped' = BitOr(alg_rhs, alg_lhs)
    /\ UNCHANGED <<alg_lhs, alg_rhs, termVars, anVars, patVars, fnVars>>

\* self.override_vars_using(&mut r): alg_out is self, alg_swapped is r afterwards.
ApplyOverride ==
    /\ alg_pc = "init"
    /\ alg_pc' = "override"
    /\ LET ov == OverrideVarsUsing(alg_lhs, alg_rhs)
       IN  alg_out' = ov.self /\ alg_swapped' = ov.r
    /\ UNCHANGED <<alg_lhs, alg_rhs, termVars, anVars, patVars, fnVars>>

\* `!f`, applied first to the Facts {true: alg_lhs, false: alg_rhs} and then
\* to its own result; alg_out / alg_swapped hold the result's two sides.
ApplyNot ==
    /\ alg_pc \in {"init", "not"}
    /\ alg_pc' = IF alg_pc = "init" THEN "not" ELSE "notnot"
    /\ LET f == IF alg_pc = "init"
                THEN [true_facts |-> alg_lhs, false_facts |-> alg_rhs]
                ELSE [true_facts |-> alg_out, false_facts |-> alg_swapped]
       IN  /\ alg_out' = Not(f).true_facts
           /\ alg_swapped' = Not(f).false_facts
    /\ UNCHANGED <<alg_lhs, alg_rhs, termVars, anVars, patVars, fnVars>>

AlgNext == ApplyAddAssign \/ ApplyBitOr \/ ApplyOverride \/ ApplyNot

AlgOff ==
    /\ alg_pc = "off"
    /\ alg_lhs = CondFactsDefault
    /\ alg_rhs = CondFactsDefault
    /\ alg_out = CondFactsDefault
    /\ alg_swapped = CondFactsDefault

-----------------------------------------------------------------------------
(* Statements (RStmt).  A statement is a record of one shape: its kind and *)
(* its children -- none for a leaf, <<cons>> or <<cons, alt>> for an if,   *)
(* the statements of a block.                                              *)

Leaf(k) == [kind |-> k, kids |-> <<>>]
SReturn   == Leaf("Return")
SThrow    == Leaf("Throw")
SContinue == Leaf("Continue")
SBreak    == Leaf("Break")
SExpr     == Leaf("Expr")
SIf(cons)          == [kind |-> "If", kids |-> <<cons>>]
SIfElse(cons, alt) == [kind |-> "If", kids |-> <<cons, alt>>]
SBlock(stmts)      == [kind |-> "Block", kids |-> stmts]

HasAlt(s) == Len(s.kids) = 2

\* Analyzer::is_switch_case_body_unconditional_termination
RECURSIVE is_switch_case_body_unconditional_termination(_)
is_switch_case_body_unconditional_termination(body) ==
    IF body = <<>> THEN FALSE
    ELSE LET stmt == Head(body)
         IN  CASE stmt.kind \in {"Return", "Throw", "Continue"} -> TRUE
               [] stmt.kind = "Break" -> FALSE
               [] stmt.kind = "If" ->
                    IF HasAlt(stmt)
                    THEN /\ is_switch_case_body_unconditional_termination(<<stmt.kids[1]>>)
                         /\ is_switch_case_body_unconditional_termination(<<stmt.kids[2]>>)
                    ELSE is_switch_case_body_unconditional_termination(<<stmt.kids[1]>>)
               [] OTHER -> is_switch_case_body_unconditional_termination(Tail(body))

\* Bounded statements: leaves, blocks of one leaf, and ifs over those.
LeafStmts == {SReturn, SThrow, SContinue, SBreak, SExpr}
ArmStmts == {SReturn, SBreak, SExpr, SBlock(<<SReturn>>), SBlock(<<SExpr>>)}
Stmts ==
    LeafStmts
    \cup {SBlock(<<SReturn>>), SBlock(<<SExpr>>)}
    \cup {SIf(c) : c \in ArmStmts}
    \cup {SIfElse(c, a) : c \in ArmStmts, a \in ArmStmts}

StmtLists == SeqsUpTo(Stmts, MaxStmts)

-----------------------------------------------------------------------------
(* TermSpec: classify one drawn statement list.                            *)

TermInit ==
    /\ term_pc = "init"
    /\ term_body \in StmtLists
    /\ term_result = FALSE

Classify ==
    /\ term_pc = "init"
    /\ term_pc' = "done"
    /\ term_result' = is_switch_case_body_unconditional_termination(term_body)
    /\ UNCHANGED <<term_body, algVars, anVars, patVars, fnVars>>

TermOff ==
    /\ term_pc = "off"
    /\ term_body = <<>>
    /\ term_result = FALSE

-----------------------------------------------------------------------------
(* Facts: the pair (true_facts, false_facts).                              *)

Facts(t, f) == [true_facts |-> t, false_facts |-> f]
FactsDefault == Facts(CondFactsDefault, CondFactsDefault)

\* Vec::push on the entry of a map of lists (entry(name).or_default().push(v)).
PushEntry(m, k, v) ==
    MapInsert(m, k, Append(IF k \in DOMAIN m THEN m[k] ELSE <<>>, v))

InsertVar_negated(self, name, ty, exclude, negate) ==
    IF ~negate
    THEN Facts([self.true_facts EXCEPT !.excludes = PushEntry(@, name, exclude)],
               [self.false_facts EXCEPT !.vars = MapInsert(@, name, ty)])
    ELSE Facts([self.true_facts EXCEPT !.vars = MapInsert(@, name, ty)],
               [self.false_facts EXCEPT !.excludes = PushEntry(@, name, exclude)])

\* Facts::insert_var
InsertVar(self, name, ty, exclude, negate) ==
    IF negate
    THEN Facts([self.true_facts EXCEPT !.excludes = PushEntry(@, name, exclude)],
               [self.false_facts EXCEPT !.vars = MapInsert(@, name, ty)])
    ELSE Facts([self.true_facts EXCEPT !.vars = MapInsert(@, name, ty)],
               [self.false_facts EXCEPT !.excludes = PushEntry(@, name, exclude)])

\* Analyzer::add_type_fact
AddTypeFact(facts, sym, ty, exclude) == InsertVar(facts, sym, ty, exclude, FALSE)

-----------------------------------------------------------------------------
(* Expressions in test position, and what evaluating one records.          *)
(*   Eq     x === literal          Ident  x                                *)
(*   Call   an expression that records nothing                             *)
(*   Bad    an expression whose validation returns Err                     *)

ExprEq(name, ty) == [kind |-> "Eq", name |-> name, ty |-> ty]
ExprIdent(name)  == [kind |-> "Ident", name |-> name, ty |-> TNever]
ExprCall         == [kind |-> "Call", name |-> "", ty |-> TNever]
ExprBad          == [kind |-> "Bad", name |-> "", ty |-> TNever]

\* bitwise-or of `bits` into facts[name] (entry(name).or_insert(None) |= bits)
OrFact(cf, name, bits) ==
    [cf EXCEPT !.facts =
        MapInsert(@, name, (IF name \in DOMAIN @ THEN @[name] ELSE TypeFactsNone) \cup bits)]

\* validate_with_default(expr) under ctx.should_store_truthy_for_access = store:
\* the facts recorded into cur_facts, and whether the result was Ok.
ValidateExpr(facts, e, store) ==
    [ok    |-> e.kind # "Bad",
     facts |-> IF ~store THEN facts
               ELSE CASE e.kind = "Eq"    -> AddTypeFact(facts, e.name, e.ty, e.ty)
                      [] e.kind = "Ident" -> Facts(OrFact(facts.true_facts, e.name, Truthy),
                                                   OrFact(facts.false_facts, e.name, Falsy))
                      [] OTHER            -> facts]

TestExprs == {ExprEq("x", TNull), ExprIdent("x"), ExprCall, ExprBad}

\* EndsWithRet::ends_with_ret: the tail of a statement (list) is return, throw
\* or continue, or an if/else whose two arms end so; break does not count.
RECURSIVE EndsWithRetStmt(_)
EndsWithRet(stmts) ==
    IF stmts = <<>> THEN FALSE ELSE EndsWithRetStmt(stmts[Len(stmts)])

EndsWithRetStmt(s) ==
    CASE s.kind \in {"Return", "Throw", "Continue"} -> TRUE
      [] s.kind = "Block" -> EndsWithRet(s.kids)
      [] s.kind = "If" ->
           HasAlt(s) /\ EndsWithRetStmt(s.kids[1]) /\ EndsWithRetStmt(s.kids[2])
      [] OTHER -> FALSE

Some(v) == <<v>>
None == <<>>

-----------------------------------------------------------------------------
(* The if-statement analyzer.                                              *)

IfStmt(test, cons, alt) == [kind |-> "IfStmt", test |-> test, cons |-> cons, alt |-> alt]

\* The flow-sensitive merge with the early return after the first hoist lost.
IfMerge_noReturn(prev_facts, false_facts, ends_with_ret, cons_unreachable, alt_unreachable, in_unreachable) ==
    LET c1 == IF ends_with_ret
              THEN [prev_facts EXCEPT !.true_facts = AddAssign(@, false_facts)]
              ELSE prev_facts
    IN  IF cons_unreachable
        THEN IF alt_unreachable = Some(TRUE)
             THEN [cur_facts |-> c1, in_unreachable |-> TRUE]
             ELSE [cur_facts |-> [c1 EXCEPT !.true_facts = AddAssign(@, false_facts)],
                   in_unreachable |-> in_unreachable]
        ELSE [cur_facts |-> c1, in_unreachable |-> in_unreachable]

\* The tail of validate(RIfStmt) with an absent alternate taken as unreachable.
IfMerge_altAbsent(prev_facts, false_facts, ends_with_ret, cons_unreachable, alt_unreachable, in_unreachable) ==
    IF ends_with_ret
    THEN [cur_facts |-> [prev_facts EXCEPT !.true_facts = AddAssign(@, false_facts)],
          in_unreachable |-> in_unreachable]
    ELSE IF cons_unreachable
    THEN IF alt_unreachable # Some(FALSE)
         THEN [cur_facts |-> prev_facts, in_unreachable |-> TRUE]
         ELSE [cur_facts |-> [prev_facts EXCEPT !.true_facts = AddAssign(@, false_facts)],
               in_unreachable |-> in_unreachable]
    ELSE [cur_facts |-> prev_facts, in_unreachable |-> in_unreachable]

\* Analyzer::validate(RIfStmt), from `self.cur_facts = prev_facts` on: the
\* facts and the unreachable flag the routine leaves.
IfMerge(prev_facts, false_facts, ends_with_ret, cons_unreachable, alt_unreachable, in_unreachable) ==
    IF ends_with_ret
    THEN [cur_facts |-> [prev_facts EXCEPT !.true_facts = AddAssign(@, false_facts)],
          in_unreachable |-> in_unreachable]
    ELSE IF cons_unreachable
    THEN IF alt_unreachable = Some(TRUE)
         THEN [cur_facts |-> prev_facts, in_unreachable |-> TRUE]
         ELSE [cur_facts |-> [prev_facts EXCEPT !.true_facts = AddAssign(@, false_facts)],
               in_unreachable |-> in_unreachable]
    ELSE [cur_facts |-> prev_facts, in_unreachable |-> in_unreachable]

\* Analyzer::validate(RIfStmt).  The test is evaluated in a child whose
\* cur_facts is the (taken, hence empty) cur_facts of the parent; the arms are
\* visited in children that report whether they ended unreachable.
ValidateIfStmt ==
    /\ pc = "idle"
    /\ node.kind = "IfStmt"
    /\ \E cons_ends_with_unreachable \in BOOLEAN,
          alt_ends_with_unreachable \in
              IF node.alt = None THEN {None} ELSE {Some(TRUE), Some(FALSE)} :
          LET prev_facts == cur_facts
              test == ValidateExpr(FactsDefault, node.test, TRUE)
              facts_from_test == test.facts
              ends_with_ret == EndsWithRetStmt(node.cons)
              merged == IfMerge(prev_facts, facts_from_test.false_facts, ends_with_ret,
                                cons_ends_with_unreachable, alt_ends_with_unreachable,
                                ctx.in_unreachable)
          IN  /\ cur_facts' = merged.cur_facts
              /\ ctx' = [ctx EXCEPT !.in_unreachable = merged.in_unreachable]
              /\ storage' = IF test.ok THEN storage ELSE Append(storage, "TestError")
              /\ locals' = [facts_from_test |-> facts_from_test,
                            ends_with_ret |-> ends_with_ret,
                            cons_ends_with_unreachable |-> cons_ends_with_unreachable,
                            alt_ends_with_unreachable |-> alt_ends_with_unreachable]
    /\ pc' = "done"
    /\ UNCHANGED <<node, scope_vars, entry, lp, algVars, termVars, patVars, fnVars>>

IfArms == {SBlock(<<SReturn>>), SBlock(<<SExpr>>), SThrow}
IfAlts == {None, Some(SBlock(<<SExpr>>)), Some(SReturn)}
IfNodes == {IfStmt(t, c, a) : t \in TestExprs, c \in IfArms, a \in IfAlts}

-----------------------------------------------------------------------------
(* The switch analyzer.                                                    *)

\* A case: its test (None for `default`, else the literal compared with the
\* discriminant, or an expression whose comparison fails to validate) and
\* its body.
CaseDefault(cons)  == [test |-> None, bad |-> FALSE, cons |-> cons]
CaseLit(ty, cons)  == [test |-> Some(ty), bad |-> FALSE, cons |-> cons]
CaseBad(cons)      == [test |-> Some(TNever), bad |-> TRUE, cons |-> cons]

SwitchStmt(discriminant, cases) ==
    [kind |-> "SwitchStmt", discriminant |-> discriminant, cases |-> cases]

\* The locals of validate(RSwitchStmt) before the first case.
SwitchStart(facts) ==
    [false_facts     |-> CondFactsDefault,
     base_true_facts |-> facts.true_facts,
     ends_with_ret   |-> FALSE,
     errored         |-> FALSE,
     cur_facts       |-> [facts EXCEPT !.true_facts = CondFactsDefault],
     visited         |-> <<>>,
     reported        |-> <<>>]

\* One iteration with the false facts of every case accumulated.
SwitchCase_hoistAll(st, discriminant, case, last) ==
    IF st.errored THEN st
    ELSE
    LET ends_with_ret == EndsWithRet(case.cons)
    IN  IF case.bad
        THEN [st EXCEPT !.ends_with_ret = ends_with_ret,
                        !.errored = TRUE,
                        !.reported = Append(@, "CaseTestError")]
        ELSE
        LET tested == IF case.test = None THEN st.cur_facts
                      ELSE ValidateExpr(st.cur_facts,
                                        ExprEq(discriminant, case.test[1]), TRUE).facts
            true_facts_created_by_case == tested.true_facts
            false_facts_created_by_case == tested.false_facts
            facts_for_body == AddAssign(st.base_true_facts, true_facts_created_by_case)
            hoist == TRUE
        IN  [false_facts     |-> IF hoist
                                 THEN AddAssign(st.false_facts, false_facts_created_by_case)
                                 ELSE st.false_facts,
             base_true_facts |-> IF hoist
                                 THEN AddAssign(st.base_true_facts, false_facts_created_by_case)
                                 ELSE st.base_true_facts,
             ends_with_ret   |-> ends_with_ret,
             errored         |-> FALSE,
             cur_facts       |-> FactsDefault,
             visited         |-> Append(st.visited,
                                        [facts_for_body |-> facts_for_body,
                                         true_facts |-> true_facts_created_by_case,
                                         false_facts |-> false_facts_created_by_case]),
             reported        |-> st.reported]

\* One iteration that does not stop after an errored case test.
SwitchCase_noStop(st, discriminant, case, last) ==
    LET ends_with_ret == EndsWithRet(case.cons)
    IN  IF case.bad
        THEN [st EXCEPT !.ends_with_ret = ends_with_ret,
                        !.errored = TRUE,
                        !.reported = Append(@, "CaseTestError")]
        ELSE
        LET tested == IF case.test = None THEN st.cur_facts
                      ELSE ValidateExpr(st.cur_facts,
                                        ExprEq(discriminant, case.test[1]), TRUE).facts
            true_facts_created_by_case == tested.true_facts
            false_facts_created_by_case == tested.false_facts
            facts_for_body == AddAssign(st.base_true_facts, true_facts_created_by_case)
            hoist == ends_with_ret \/ last
        IN  [false_facts     |-> IF hoist
                                 THEN AddAssign(st.false_facts, false_facts_created_by_case)
                                 ELSE st.false_facts,
             base_true_facts |-> IF hoist
                                 THEN AddAssign(st.base_true_facts, false_facts_created_by_case)
                                 ELSE st.base_true_facts,
             ends_with_ret   |-> ends_with_ret,
             errored         |-> FALSE,
             cur_facts       |-> FactsDefault,
             visited         |-> Append(st.visited,
                                        [facts_for_body |-> facts_for_body,
                                         true_facts |-> true_facts_created_by_case,
                                         false_facts |-> false_facts_created_by_case]),
             reported        |-> st.reported]

\* One iteration of the loop over the cases.
SwitchCase(st, discriminant, case, last) ==
    IF st.errored THEN st
    ELSE
    LET ends_with_ret == EndsWithRet(case.cons)
    IN  IF case.bad
        THEN [st EXCEPT !.ends_with_ret = ends_with_ret,
                        !.errored = TRUE,
                        !.reported = Append(@, "CaseTestError")]
        ELSE
        LET tested == IF case.test = None THEN st.cur_facts
                      ELSE ValidateExpr(st.cur_facts,
                                        ExprEq(discriminant, case.test[1]), TRUE).facts
            true_facts_created_by_case == tested.true_facts
            false_facts_created_by_case == tested.false_facts
            facts_for_body == AddAssign(st.base_true_facts, true_facts_created_by_case)
            hoist == ends_with_ret \/ last
        IN  [false_facts     |-> IF hoist
                                 THEN AddAssign(st.false_facts, false_facts_created_by_case)
                                 ELSE st.false_facts,
             base_true_facts |-> IF hoist
                                 THEN AddAssign(st.base_true_facts, false_facts_created_by_case)
                                 ELSE st.base_true_facts,
             ends_with_ret   |-> ends_with_ret,
             errored         |-> FALSE,
             cur_facts       |-> FactsDefault,
             visited         |-> Append(st.visited,
                                        [facts_for_body |-> facts_for_body,
                                         true_facts |-> true_facts_created_by_case,
                                         false_facts |-> false_facts_created_by_case]),
             reported        |-> st.reported]

\* The loop over the first n cases, in source order.
RECURSIVE SwitchCases(_, _, _)
SwitchCases(facts, stmt, n) ==
    IF n = 0 THEN SwitchStart(facts)
    ELSE SwitchCase(SwitchCases(facts, stmt, n - 1), stmt.discriminant,
                    stmt.cases[n], n = Len(stmt.cases))

\* stmt.cases.iter().all(|case| is_switch_case_body_unconditional_termination(&case.cons))
AllCasesTerminate(cases) ==
    \A i \in 1..Len(cases) : is_switch_case_body_unconditional_termination(cases[i].cons)

\* The tail of validate(RSwitchStmt) with the hoisting done unconditionally.
SwitchFinish_always(st, cases, in_unreachable) ==
    [cur_facts |-> [st.cur_facts EXCEPT !.true_facts = AddAssign(@, st.false_facts)],
     in_unreachable |-> IF ~st.errored
                        THEN in_unreachable \/ AllCasesTerminate(cases)
                        ELSE in_unreachable]

\* The tail of validate(RSwitchStmt): the unreachable flag and the hoisting.
SwitchFinish(st, cases, in_unreachable) ==
    [cur_facts |-> IF st.ends_with_ret
                   THEN [st.cur_facts EXCEPT !.true_facts = AddAssign(@, st.false_facts)]
                   ELSE st.cur_facts,
     in_unreachable |-> IF ~st.errored
                        THEN in_unreachable \/ AllCasesTerminate(cases)
                        ELSE in_unreachable]

\* Analyzer::validate(RSwitchStmt).  The discriminant and the case tests are
\* valid expressions on their own; a case body is visited in a child scope.
ValidateSwitchStmt ==
    /\ pc = "idle"
    /\ node.kind = "SwitchStmt"
    /\ LET st == SwitchCases(cur_facts, node, Len(node.cases))
           fin == SwitchFinish(st, node.cases, ctx.in_unreachable)
       IN  /\ cur_facts' = fin.cur_facts
           /\ ctx' = [ctx EXCEPT !.in_unreachable = fin.in_unreachable]
           /\ storage' = storage \o st.reported
           /\ locals' = [st EXCEPT !.cur_facts = fin.cur_facts]
    /\ pc' = "done"
    /\ UNCHANGED <<node, scope_vars, entry, lp, algVars, termVars, patVars, fnVars>>

CaseBodies ==
    {<<SReturn>>, <<SExpr, SBreak>>, <<SExpr>>, <<SIf(SReturn)>>, <<SBlock(<<SReturn>>)>>}
Cases ==
    {CaseDefault(b) : b \in {<<SReturn>>, <<SExpr>>}}
    \cup {CaseLit(TNull, b) : b \in CaseBodies}
    \cup {CaseBad(b) : b \in {<<SReturn>>, <<SExpr>>}}
SwitchNodes == {SwitchStmt("x", cs) : cs \in SeqsUpTo(Cases, MaxCases)}

-----------------------------------------------------------------------------
(* Ternary type adjustment.                                                *)

\* A type the analyzer cannot resolve; `extends` has no answer for it.
TRef == [kind |-> "ref", name |-> "T", types |-> <<>>, prevent |-> FALSE]

LitBase(n) == IF n = "a" THEN "string" ELSE "number"

\* Analyzer::extends(child, parent): Some(true), Some(false), or None when
\* the relation cannot be decided.  SafeSubscriber is a subclass of
\* Subscriber; a literal extends its keyword; arrays are covariant.
RECURSIVE Extends(_, _)
Extends(child, parent) ==
    IF type_eq(child, parent) THEN Some(TRUE)
    ELSE IF child.kind = "ref" \/ parent.kind = "ref" THEN None
    ELSE IF parent.kind = "kw" /\ parent.name = "any" THEN Some(TRUE)
    ELSE IF IsUnion(child)
    THEN Some(\A i \in 1..Len(child.types) : Extends(child.types[i], parent) = Some(TRUE))
    ELSE IF IsUnion(parent)
    THEN Some(\E i \in 1..Len(parent.types) : Extends(child, parent.types[i]) = Some(TRUE))
    ELSE IF child.kind = "lit" /\ parent.kind = "kw"
    THEN Some(LitBase(child.name) = parent.name)
    ELSE IF child.kind = "class" /\ parent.kind = "class"
    THEN Some(child.name = "SafeSubscriber" /\ parent.name = "Subscriber")
    ELSE IF child.kind = "array" /\ parent.kind = "array"
    THEN Extends(child.types[1], parent.types[1])
    ELSE Some(FALSE)

\* types.iter().flat_map(|ty| ty.iter_union())
RECURSIVE FlatMembers(_)
FlatMembers(types) ==
    IF types = <<>> THEN <<>> ELSE IterUnion(Head(types)) \o FlatMembers(Tail(types))

\* The members of `members` at the positions that `keep` accepts, in order.
RECURSIVE KeepFrom(_, _, _)
KeepFrom(members, kept, ai) ==
    IF ai > Len(members) THEN <<>>
    ELSE (IF ai \in kept THEN <<members[ai]>> ELSE <<>>) \o KeepFrom(members, kept, ai + 1)

\* remove_child_types: member number ai of the flattened list is dropped when
\* it extends a candidate b whose position bi in `types` is not ai.
remove_child_types(types) ==
    LET members == FlatMembers(types)
        kept == {ai \in 1..Len(members) :
                   ~\E bi \in 1..Len(types) :
                       ai # bi /\ Extends(members[ai], types[bi]) = Some(TRUE)}
        new == KeepFrom(members, kept, 1)
    IN  IF new = <<>> THEN types ELSE new

\* need_work of downcast_types: not a literal and not null.
need_work(ty) == ~(ty.kind = "lit" \/ (ty.kind = "kw" /\ ty.name = "null"))

\* The inner loop of downcast_types from position bi on: TRUE when ty (at
\* position ai) is removed, FALSE when the loop breaks or runs out.
RECURSIVE DowncastRemoves(_, _, _)
DowncastRemoves(members, ai, bi) ==
    IF bi > Len(members) THEN FALSE
    ELSE IF ai = bi \/ ~need_work(members[bi]) THEN DowncastRemoves(members, ai, bi + 1)
    ELSE IF type_eq(members[bi], members[ai]) THEN FALSE
    ELSE IF Extends(members[bi], members[ai]) = Some(TRUE) THEN TRUE
    ELSE DowncastRemoves(members, ai, bi + 1)

downcast_types(types) ==
    LET members == FlatMembers(types)
        kept == {ai \in 1..Len(members) :
                   ~(need_work(members[ai]) /\ DowncastRemoves(members, ai, 1))}
        new == KeepFrom(members, kept, 1)
    IN  IF new = <<>> THEN types ELSE new

\* Tuple -> Array of the union of the deduplicated element types; the
\* array keeps the tuple's common metadata.
TupleToArray(ty) ==
    IF ty.kind = "tuple"
    THEN [Array(NewUnion(DedupType(ty.types))) EXCEPT !.prevent = ty.prevent]
    ELSE ty

\* adjust_ternary_type without the tuple rewrite.
adjust_ternary_type_keepTuples(types) ==
    IF \A m \in SeqRange(FlatMembers(types)) : ~m.prevent
    THEN remove_child_types(types)
    ELSE downcast_types(types)

adjust_ternary_type(types) ==
    LET arrays == [i \in 1..Len(types) |-> TupleToArray(types[i])]
        should_preserve == \A m \in SeqRange(FlatMembers(arrays)) : ~m.prevent
    IN  IF should_preserve THEN remove_child_types(arrays) ELSE downcast_types(arrays)

-----------------------------------------------------------------------------
(* The conditional-expression analyzer.                                    *)

\* What validating a branch expression returns: Ok(ty) or Err.
BranchOk(ty) == [ok |-> TRUE, ty |-> ty]
BranchErr == [ok |-> FALSE, ty |-> TNever]

CondExpr(test, cons, alt, type_ann) ==
    [kind |-> "CondExpr", test |-> test, cons |-> cons, alt |-> alt, type_ann |-> type_ann]

\* ty.unwrap_or_else(|| Type::any(..))
BranchType(b) == IF b.ok THEN b.ty ELSE TAny

\* The tail of validate(RCondExpr) with the adjustment done on every call.
CondResult_alwaysAdjust(cons, alt, type_ann) ==
    IF type_eq(cons, alt) THEN cons
    ELSE Fix(NewUnion(adjust_ternary_type(<<cons, alt>>)))

\* The tail of validate(RCondExpr): the type of the whole expression.
CondResult(cons, alt, type_ann) ==
    IF type_eq(cons, alt) THEN cons
    ELSE LET new_types == IF type_ann = None
                          THEN adjust_ternary_type(<<cons, alt>>)
                          ELSE <<cons, alt>>
         IN  Fix(NewUnion(new_types))

\* The errors the routine reports, in order: the test's, then each branch's.
CondErrors(test_ok, cons, alt) ==
    (IF test_ok THEN <<>> ELSE <<"TestError">>)
    \o (IF cons.ok THEN <<>> ELSE <<"ConsError">>)
    \o (IF alt.ok THEN <<>> ELSE <<"AltError">>)

\* Analyzer::validate(RCondExpr): the test records into cur_facts, both sides
\* are taken and seed the children that evaluate the two branches.
ValidateCondExpr ==
    /\ pc = "idle"
    /\ node.kind = "CondExpr"
    /\ LET test == ValidateExpr(cur_facts, node.test, TRUE)
           true_facts == test.facts.true_facts
           false_facts == test.facts.false_facts
       IN  /\ cur_facts' = FactsDefault
           /\ storage' = storage \o CondErrors(test.ok, node.cons, node.alt)
           /\ locals' = [true_facts |-> true_facts, false_facts |-> false_facts,
                         ty |-> CondResult(BranchType(node.cons), BranchType(node.alt),
                                           node.type_ann)]
    /\ pc' = "done"
    /\ UNCHANGED <<node, ctx, scope_vars, entry, lp, algVars, termVars, patVars, fnVars>>

TNumberTuple == Tuple(<<TNumber, TNumber>>)
TStringTuple == Tuple(<<TString>>)

BranchTypes ==
    {TString, Lit("a"), TNumberTuple, TStringTuple, Tuple(<<Lit("1"), Lit("2")>>),
     Class("Subscriber"), Class("SafeSubscriber"), Marked(Class("Subscriber")), TRef,
     NewUnion(<<Class("SafeSubscriber"), TNull>>)}

Branches == {BranchOk(t) : t \in BranchTypes} \cup {BranchErr}

CondTests == {ExprEq("x", TNull), ExprBad}
TypeAnns == {None, Some(TAny)}

CondNodes ==
    {CondExpr(t, c, a, ann) : t \in CondTests, c \in Branches, a \in Branches, ann \in TypeAnns}

-----------------------------------------------------------------------------
(* The loop fixed-point analyzer.                                          *)

\* What a loop body can see of the facts that seed its scope: the binding of x.
ViewOf(cf) ==
    IF "x" \notin DOMAIN cf.vars THEN "absent"
    ELSE IF cf.vars["x"] = TString THEN "string"
    ELSE IF cf.vars["x"] = TNull THEN "null"
    ELSE "other"

Views == {"absent", "string", "null", "other"}

\* The true facts a visit of the body leaves in the child's cur_facts.
BodyOuts ==
    {CondFactsDefault,
     [CondFactsDefault EXCEPT !.vars = One("x", TString)],
     [facts |-> One("x", Truthy), vars |-> One("x", TNull),
      excludes |-> One("x", <<TNull>>), types |-> EmptyMap]}

\* A loop: its test (None for for-in/for-of), its body as a function from
\* what the body sees to the facts it leaves, and the type the body assigns
\* to x in scope.vars (None when it assigns nothing).
Loop(test, body, assign) ==
    [kind |-> "Loop", test |-> test, body |-> body, assign |-> assign]

LoopIdle ==
    [prev_facts |-> CondFactsDefault, prev_false_facts |-> CondFactsDefault,
     facts_of_prev_body_eval |-> CondFactsDefault, last |-> FALSE,
     orig_vars |-> None, passes |-> <<>>]

\* validate_loop_body_with_scope, up to the loop.
LoopEnter ==
    /\ pc = "idle"
    /\ node.kind = "Loop"
    /\ lp' = [prev_facts |-> cur_facts.true_facts,
              prev_false_facts |-> cur_facts.false_facts,
              facts_of_prev_body_eval |-> CondFactsDefault,
              last |-> FALSE,
              orig_vars |-> Some(scope_vars),
              passes |-> <<>>]
    /\ cur_facts' = FactsDefault
    /\ pc' = "loop"
    /\ UNCHANGED <<node, ctx, scope_vars, storage, entry, locals, algVars, termVars, patVars, fnVars>>

\* The context of the child of a pass: child.ctx.ignore_errors |= !last.
PassCtx_inherit(c, last) == c

PassCtx(c, last) == [c EXCEPT !.ignore_errors = @ \/ ~last]

\* The context the test is visited under: Ctx { in_cond: true, ..child.ctx }.
TestCtx(c) == ("in_cond" :> TRUE) @@ c

\* The child of one pass: the test is visited under TestCtx, then the body;
\* the child's true facts are taken.
PassChild(prev_facts, loop, c) ==
    LET test == IF loop.test = None THEN [ok |-> TRUE, facts |-> FactsDefault]
                ELSE ValidateExpr(FactsDefault, loop.test[1],
                                  TestCtx(c).should_store_truthy_for_access)
    IN  [ok |-> test.ok,
         facts_from_body |-> AddAssign(test.facts.true_facts,
                                       loop.body[ViewOf(prev_facts)])]

ClearExcludes_keep(cf) == cf

\* facts_from_body.excludes.clear()
ClearExcludes(cf) == [cf EXCEPT !.excludes = EmptyMap]

PassScopeVars_keep(l, after_body) == after_body

\* The hook run when the child of a pass is left: the last pass puts the
\* snapshot orig_vars back into scope.vars.
PassScopeVars(l, after_body) ==
    IF l.last THEN l.orig_vars[1] ELSE after_body

PassMerge_noOverride(l, facts_from_body) ==
    LET same == l.facts_of_prev_body_eval = facts_from_body
    IN  [l EXCEPT !.last = same,
                  !.facts_of_prev_body_eval = IF same THEN @ ELSE facts_from_body,
                  !.prev_facts = AddAssign(l.prev_facts, facts_from_body)]

\* The rest of a pass that is not the last: compare, override, compose.
PassMerge(l, facts_from_body) ==
    LET same == l.facts_of_prev_body_eval = facts_from_body
        ov == OverrideVarsUsing(l.prev_facts, facts_from_body)
    IN  [l EXCEPT !.last = same,
                  !.facts_of_prev_body_eval = IF same THEN @ ELSE facts_from_body,
                  !.prev_facts = AddAssign(ov.self, ov.r)]

\* The pass log: what the most recent MaxPassLog passes ran with and left.
LogPass(passes, pass) ==
    IF Len(passes) < MaxPassLog THEN Append(passes, pass)
    ELSE Append(Tail(passes), pass)

\* One pass of the loop of validate_loop_body_with_scope; the last pass also
\* restores scope.vars, leaves the loop and installs the facts.
LoopPass ==
    /\ pc = "loop"
    /\ LET child_ctx == PassCtx(ctx, lp.last)
           child == PassChild(lp.prev_facts, node, child_ctx)
           facts_from_body == ClearExcludes(child.facts_from_body)
           after_body == IF node.assign = None THEN scope_vars
                         ELSE MapInsert(scope_vars, "x", node.assign[1])
           merged == IF lp.last
                     THEN [lp EXCEPT !.prev_facts = AddAssign(@, facts_from_body),
                                     !.orig_vars = None]
                     ELSE PassMerge(lp, facts_from_body)
           pass == [last |-> lp.last, ctx |-> child_ctx,
                    test_ctx |-> IF node.test = None THEN None
                                 ELSE Some(TestCtx(child_ctx)),
                    facts_from_body |-> facts_from_body,
                    prev_facts |-> merged.prev_facts]
       IN  /\ scope_vars' = PassScopeVars(lp, after_body)
           /\ storage' = IF child.ok \/ child_ctx.ignore_errors THEN storage
                         ELSE Append(storage, "TestError")
           /\ lp' = [merged EXCEPT !.passes = LogPass(@, pass)]
           /\ IF lp.last
              THEN /\ cur_facts' =
                        Facts(AddAssign(cur_facts.true_facts, merged.prev_facts),
                              AddAssign(cur_facts.false_facts, lp.prev_false_facts))
                   /\ locals' = [facts_from_body |-> facts_from_body]
                   /\ pc' = "done"
              ELSE UNCHANGED <<cur_facts, locals, pc>>
    /\ UNCHANGED <<node, ctx, entry, algVars, termVars, patVars, fnVars>>

LoopTests == {None, Some(ExprIdent("x")), Some(ExprBad)}
LoopAssigns == {None, Some(TNumber)}
LoopNodes ==
    {Loop(t, b, a) : t \in LoopTests, b \in [Views -> BodyOuts], a \in LoopAssigns}

-----------------------------------------------------------------------------
(* Assignment to an identifier pattern.                                    *)

\* VarInfo: declared type (ty), actual type, copied, loop-modified flag.
VarInfo(ty, actual_ty, copied, modified) ==
    [ty |-> ty, actual_ty |-> actual_ty, copied |-> copied,
     is_actual_type_modified_in_loop |-> modified]

\* self.scope: the variables of the current scope (get_var / get_var_mut),
\* those of the enclosing scopes (search_parent) and the names being declared.
Scope(scope_vars_, parent, declaring) ==
    [vars |-> scope_vars_, parent |-> parent, declaring |-> declaring]

ScopeDefault == Scope(EmptyMap, EmptyMap, {})

PatAssignOpts(ignore_lhs_errors) == [ignore_lhs_errors |-> ignore_lhs_errors]

\* apply_type_facts_to_type(NEUndefined | NENull, ty): null and undefined
\* are removed from ty.
IsNullish(t) == t.kind = "kw" /\ t.name \in {"null", "undefined"}

RECURSIVE DropNullish(_)
DropNullish(s) ==
    IF s = <<>> THEN <<>>
    ELSE (IF IsNullish(Head(s)) THEN <<>> ELSE <<Head(s)>>) \o DropNullish(Tail(s))

ApplyNonNullish(ty) == Fix(NewUnion(DropNullish(IterUnion(ty))))

\* assign_with_opts(to, rhs): Ok unless rhs is known not to extend `to`.
Assignable(to, rhs) == Extends(rhs, to) # Some(FALSE)

\* narrowed_type_of_assignment(declared, ty): the members of a declared union
\* that ty extends, or ty itself.
RECURSIVE MembersExtendedBy(_, _)
MembersExtendedBy(ty, s) ==
    IF s = <<>> THEN <<>>
    ELSE (IF Extends(ty, Head(s)) = Some(TRUE) THEN <<Head(s)>> ELSE <<>>)
         \o MembersExtendedBy(ty, Tail(s))

NarrowedTypeOfAssignment(declared, ty) ==
    IF IsUnion(declared) /\ MembersExtendedBy(ty, declared.types) # <<>>
    THEN Fix(NewUnion(MembersExtendedBy(ty, declared.types)))
    ELSE ty

PatRet(sc, reported, ret) == [scope |-> sc, reported |-> reported, ret |-> ret]

\* "Update actual types" with the loop flag assigned instead of or-ed and
\* the parent's VarInfo inserted without the copied mark.
UpdateActualTypes_plainCopy(sc, c, name, ty, actual_ty, is_in_loop, is_module) ==
    IF name \in DOMAIN sc.vars
    THEN PatRet([sc EXCEPT !.vars[name] =
                    [@ EXCEPT !.is_actual_type_modified_in_loop = is_in_loop,
                              !.actual_ty = Some(IF actual_ty = None THEN ty ELSE actual_ty[1])]],
                <<>>, "Ok")
    ELSE IF name \in DOMAIN sc.parent
    THEN PatRet([sc EXCEPT !.vars = MapInsert(@, name,
                    [sc.parent[name] EXCEPT
                        !.actual_ty = Some(IF actual_ty = None THEN ty ELSE actual_ty[1])])],
                <<>>, "Ok")
    ELSE PatRet(sc, <<>>, "UndefinedSymbol")

\* try_assign_pat_with_opts, RPat::Ident, from "Update actual types" on.
UpdateActualTypes(sc, c, name, ty, actual_ty, is_in_loop, is_module) ==
    IF name \in DOMAIN sc.vars
    THEN PatRet([sc EXCEPT !.vars[name] =
                    [@ EXCEPT !.is_actual_type_modified_in_loop = @ \/ is_in_loop,
                              !.actual_ty = Some(IF actual_ty = None THEN ty ELSE actual_ty[1])]],
                <<>>, "Ok")
    ELSE IF name \in DOMAIN sc.parent
    THEN PatRet([sc EXCEPT !.vars = MapInsert(@, name,
                    [sc.parent[name] EXCEPT
                        !.actual_ty = Some(IF actual_ty = None THEN ty ELSE actual_ty[1]),
                        !.copied = TRUE])],
                <<>>, "Ok")
    ELSE IF is_module THEN PatRet(sc, <<>>, "NotVariable")
    ELSE IF c.allow_ref_declaring /\ name \in sc.declaring THEN PatRet(sc, <<>>, "Ok")
    ELSE PatRet(sc, <<>>, "UndefinedSymbol")

\* try_assign_pat_with_opts, RPat::Ident: the scope it leaves, the errors it
\* reports to storage and the Ok / Err(kind) it returns.
TryAssignIdent(sc, c, name, ty, opts, is_in_loop, is_module) ==
    IF /\ name \in DOMAIN sc.vars
       /\ sc.vars[name].ty # None
       /\ ~Assignable(sc.vars[name].ty[1], ty)
    THEN PatRet(sc, <<>>, "AssignFailed")
    ELSE IF name \notin DOMAIN sc.vars \cup DOMAIN sc.parent
    THEN PatRet(sc, IF opts.ignore_lhs_errors THEN <<>> ELSE <<"NoSuchVar">>, "Ok")
    ELSE LET var_info == IF name \in DOMAIN sc.vars THEN sc.vars[name] ELSE sc.parent[name]
         IN  IF var_info.ty = None
             THEN UpdateActualTypes(sc, c, name, ty, None, is_in_loop, is_module)
             ELSE IF var_info.ty[1] = TAny \/ IsNullish(ty) THEN PatRet(sc, <<>>, "Ok")
             ELSE IF IsNever(ApplyNonNullish(ty)) THEN PatRet(sc, <<>>, "Ok")
             ELSE UpdateActualTypes(sc, c, name, ty,
                      Some(NarrowedTypeOfAssignment(var_info.ty[1], ApplyNonNullish(ty))),
                      is_in_loop, is_module)

\* What a call reports to storage when its result goes through report():
\* the errors it reported itself, then the error it returned.
Reported(r) == r.reported \o (IF r.ret = "Ok" THEN <<>> ELSE <<r.ret>>)

\* RPat::Assign with the first failure propagated instead of reported.
TryAssignDefault_propagate(sc, c, name, ty, default, opts, is_in_loop, is_module) ==
    LET first == TryAssignIdent(sc, c, name, ty, opts, is_in_loop, is_module)
        second == TryAssignIdent(first.scope, c, name, default.ty, opts, is_in_loop, is_module)
    IN  IF first.ret # "Ok" THEN first
        ELSE IF ~default.ok
        THEN PatRet(first.scope, Reported(first) \o <<"DefaultError">>, "Ok")
        ELSE PatRet(second.scope, Reported(first) \o Reported(second), "Ok")

\* try_assign_pat_with_opts, RPat::Assign (`left = default` with an identifier
\* on the left): the default is validated, ty is assigned to the left, then
\* the default's type is; every error goes to storage.
TryAssignDefault(sc, c, name, ty, default, opts, is_in_loop, is_module) ==
    LET first == TryAssignIdent(sc, c, name, ty, opts, is_in_loop, is_module)
        second == TryAssignIdent(first.scope, c, name, default.ty, opts, is_in_loop, is_module)
    IN  IF ~default.ok
        THEN PatRet(first.scope, Reported(first) \o <<"DefaultError">>, "Ok")
        ELSE PatRet(second.scope, Reported(first) \o Reported(second), "Ok")

\* What validating the default expression returns: Ok(ty) or Err.
DefaultValues == {BranchErr, BranchOk(TString), BranchOk(TNull)}

DeclaredTypes == {None, Some(TAny), Some(TString), Some(NewUnion(<<TString, TNumber>>))}

VarInfos ==
    {VarInfo(d, d, FALSE, m) : d \in DeclaredTypes, m \in BOOLEAN}

ScopeVarMaps == {EmptyMap} \cup {One("x", v) : v \in VarInfos}
ParentVarMaps ==
    {EmptyMap} \cup {One("x", VarInfo(d, d, FALSE, FALSE)) : d \in DeclaredTypes \ {Some(TAny)}}

Scopes ==
    {Scope(v, q, d) : v \in ScopeVarMaps, q \in ParentVarMaps, d \in {{}, {"x"}}}

AssignedTypes == {TString, Lit("a"), TNull, TNumber, NewUnion(<<TString, TNull>>)}

PatInit ==
    /\ pat_pc = "init"
    /\ scope \in Scopes
    /\ \E ty \in AssignedTypes, ignore \in BOOLEAN, allow \in BOOLEAN,
          in_loop \in BOOLEAN, is_module \in BOOLEAN,
          default \in {None} \cup {Some(d) : d \in DefaultValues} :
          pat_in = [name |-> "x", ty |-> ty, opts |-> PatAssignOpts(ignore),
                    allow_ref_declaring |-> allow, is_in_loop |-> in_loop,
                    is_module |-> is_module, scope |-> scope, default |-> default]
    /\ pat_out = [ret |-> "Ok", reported |-> <<>>]

\* One call of try_assign_pat_with_opts on the identifier pat_in.name.
TryAssignPat ==
    /\ pat_pc = "init"
    /\ pat_in.default = None
    /\ pat_pc' = "done"
    /\ LET r == TryAssignIdent(scope, pat_in, pat_in.name, pat_in.ty, pat_in.opts,
                               pat_in.is_in_loop, pat_in.is_module)
       IN  /\ scope' = r.scope
           /\ pat_out' = [ret |-> r.ret, reported |-> r.reported]
    /\ UNCHANGED <<pat_in, algVars, termVars, anVars, fnVars>>

\* One call of try_assign_pat_with_opts on `pat_in.name = default`.
TryAssignDefaultPat ==
    /\ pat_pc = "init"
    /\ pat_in.default # None
    /\ pat_pc' = "done_default"
    /\ LET r == TryAssignDefault(scope, pat_in, pat_in.name, pat_in.ty, pat_in.default[1],
                                 pat_in.opts, pat_in.is_in_loop, pat_in.is_module)
       IN  /\ scope' = r.scope
           /\ pat_out' = [ret |-> r.ret, reported |-> r.reported]
    /\ UNCHANGED <<pat_in, algVars, termVars, anVars, fnVars>>

PatNext == TryAssignPat \/ TryAssignDefaultPat

PatOff ==
    /\ pat_pc = "off"
    /\ pat_in = <<>>
    /\ scope = ScopeDefault
    /\ pat_out = <<>>

-----------------------------------------------------------------------------
(* Type routines run on their own: remove_child_types, downcast_types and  *)
(* narrow_types_with_property.                                             *)

\* Type::is_never: the `never` keyword, whatever its metadata.
is_never(t) == t.kind = "kw" /\ t.name = "never"

\* Type::never(span, KeywordTypeMetadata { common: src.metadata(), .. })
NeverOf(src) == [TNever EXCEPT !.prevent = src.prevent]

\* access_property(src, property): Subscriber.closed is a string and
\* SafeSubscriber.closed is null; keywords, literals, tuples and arrays have
\* no such property; an unresolved reference fails with another error.
AccessProperty(src, property) ==
    IF src.kind = "ref" THEN [res |-> "OtherError", ty |-> TNever]
    ELSE IF src.kind = "class" /\ property = "closed"
    THEN [res |-> "Ok", ty |-> IF src.name = "Subscriber" THEN TString ELSE TNull]
    ELSE [res |-> "NoSuchProperty", ty |-> TNever]

\* apply_type_facts_to_type(Truthy, ty): the nullish members are removed.
ApplyTypeFacts(type_facts, ty) ==
    IF "Truthy" \in type_facts THEN ApplyNonNullish(ty) ELSE ty

\* The members of s that are not never.
RECURSIVE RetainNotNever(_)
RetainNotNever(s) ==
    IF s = <<>> THEN <<>>
    ELSE (IF is_never(Head(s)) THEN <<>> ELSE <<Head(s)>>) \o RetainNotNever(Tail(s))

\* narrow_types_with_property(src, property, type_facts)
RECURSIVE narrow_types_with_property(_, _, _)
narrow_types_with_property(src, property, type_facts) ==
    IF IsUnion(src)
    THEN LET narrowed == [i \in 1..Len(src.types) |->
                            narrow_types_with_property(src.types[i], property, type_facts)]
             new_types == DedupType(RetainNotNever(narrowed))
         IN  IF Len(new_types) = 1 THEN new_types[1]
             ELSE [src EXCEPT !.types = new_types]
    ELSE LET prop_res == AccessProperty(src, property)
         IN  IF prop_res.res = "Ok"
             THEN IF type_facts # None /\ is_never(ApplyTypeFacts(type_facts[1], prop_res.ty))
                  THEN NeverOf(src)
                  ELSE src
             ELSE IF prop_res.res = "NoSuchProperty" THEN NeverOf(src)
             ELSE src

\* The candidate types of a ternary adjustment.
CandidateTypes ==
    {TString, TNumber, Lit("a"), TNull, TRef,
     Class("Subscriber"), Class("SafeSubscriber"), Marked(Class("Subscriber")),
     NewUnion(<<TString, TNumber>>),
     NewUnion(<<Class("Subscriber"), Class("SafeSubscriber")>>),
     NewUnion(<<Class("SafeSubscriber"), TNull>>)}

CandidateLists == SeqsUpTo(CandidateTypes, MaxCandidates) \ {<<>>}

\* The types narrowed by a property.
NarrowSrcs ==
    {TString, TRef, Class("Subscriber"), Class("SafeSubscriber"),
     Marked(Class("SafeSubscriber")),
     NewUnion(<<TString, TNumber>>),
     NewUnion(<<Class("Subscriber"), Class("SafeSubscriber")>>),
     NewUnion(<<Class("Subscriber"), TString>>),
     NewUnion(<<Class("Subscriber"), Marked(Class("Subscriber"))>>),
     NewUnion(<<NewUnion(<<TString, TNumber>>), TRef, Class("Subscriber")>>)}

NarrowArgs ==
    {[src |-> t, property |-> p, type_facts |-> f] :
        t \in NarrowSrcs, p \in {"closed", "next"}, f \in {None, Some(Truthy)}}

FnInit ==
    /\ fn_pc = "init"
    /\ fn_in \in {[types |-> ts] : ts \in CandidateLists} \cup NarrowArgs
    /\ fn_out = <<>>

ApplyRemoveChildTypes ==
    /\ fn_pc = "init"
    /\ "types" \in DOMAIN fn_in
    /\ fn_out' = remove_child_types(fn_in.types)
    /\ fn_pc' = "removed"
    /\ UNCHANGED <<fn_in, algVars, termVars, anVars, patVars>>

ApplyDowncastTypes ==
    /\ fn_pc = "init"
    /\ "types" \in DOMAIN fn_in
    /\ fn_out' = downcast_types(fn_in.types)
    /\ fn_pc' = "downcast"
    /\ UNCHANGED <<fn_in, algVars, termVars, anVars, patVars>>

ApplyNarrow ==
    /\ fn_pc = "init"
    /\ "src" \in DOMAIN fn_in
    /\ fn_out' = narrow_types_with_property(fn_in.src, fn_in.property, fn_in.type_facts)
    /\ fn_pc' = "narrowed"
    /\ UNCHANGED <<fn_in, algVars, termVars, anVars, patVars>>

FnNext == ApplyRemoveChildTypes \/ ApplyDowncastTypes \/ ApplyNarrow

FnOff ==
    /\ fn_pc = "off"
    /\ fn_in = <<>>
    /\ fn_out = <<>>

-----------------------------------------------------------------------------
(* The analyzer's specifications.                                          *)

EntryCondFacts ==
    {CondFactsDefault,
     [CondFactsDefault EXCEPT !.facts = One("x", Truthy)],
     [facts |-> EmptyMap, vars |-> One("x", TString),
      excludes |-> One("x", <<TNumber>>), types |-> One("K", TString)]}

EntryFacts == {Facts(t, f) : t \in EntryCondFacts, f \in EntryCondFacts}

Ctx(in_unreachable, should_store) ==
    [in_unreachable |-> in_unreachable, should_store_truthy_for_access |-> should_store,
     ignore_errors |-> FALSE]

\* The contexts a node is analyzed under: a loop statement may inherit either
\* value of should_store_truthy_for_access, which the other routines set
\* themselves, and may itself be analyzed with errors ignored (a loop nested
\* in a non-final pass of another loop).
CtxOf(n) ==
    IF n.kind = "Loop"
    THEN {Ctx(FALSE, s) : s \in BOOLEAN}
         \cup {[Ctx(FALSE, FALSE) EXCEPT !.ignore_errors = TRUE]}
    ELSE {Ctx(u, FALSE) : u \in BOOLEAN}

\* x is declared `string | null`.
ScopeVarsInit == One("x", NewUnion(<<TString, TNull>>))

AnalyzerInit(nodes, facts) ==
    /\ pc = "idle"
    /\ node \in nodes
    /\ cur_facts \in facts
    /\ ctx \in CtxOf(node)
    /\ scope_vars = ScopeVarsInit
    /\ storage = <<>>
    /\ entry = [cur_facts |-> cur_facts, ctx |-> ctx]
    /\ locals = <<>>
    /\ lp = LoopIdle

AnalyzerOff ==
    /\ pc = "off"
    /\ node = [kind |-> "none"]
    /\ cur_facts = FactsDefault
    /\ ctx = Ctx(FALSE, FALSE)
    /\ scope_vars = ScopeVarsInit
    /\ storage = <<>>
    /\ entry = [cur_facts |-> FactsDefault, ctx |-> Ctx(FALSE, FALSE)]
    /\ locals = <<>>
    /\ lp = LoopIdle

Init == AlgOff /\ TermOff /\ PatOff /\ FnOff /\ AnalyzerInit(IfNodes \cup SwitchNodes \cup CondNodes \cup LoopNodes, EntryFacts)

Next ==
    \/ ValidateIfStmt
    \/ ValidateSwitchStmt
    \/ ValidateCondExpr
    \/ LoopEnter
    \/ LoopPass

Spec == Init /\ [][Next]_vars

\* The loop analyzer alone.  The analyzer is single-threaded and never
\* yields, so a pass that can run does run.
LoopEntryFacts == {Facts(t, CondFactsDefault) : t \in EntryCondFacts}

\* Termination depends neither on the errors of the test nor on what the body
\* assigns in scope.vars: errors are shown, the test validates and
\* nothing is assigned.
LoopInit ==
    /\ AlgOff /\ TermOff /\ PatOff /\ FnOff
    /\ AnalyzerInit(LoopNodes, LoopEntryFacts)
    /\ ~ctx.ignore_errors
    /\ node.assign = None
    /\ node.test # Some(ExprBad)

LoopNext == LoopEnter \/ LoopPass

LoopSpec == LoopInit /\ [][LoopNext]_vars /\ WF_vars(LoopNext)

AlgebraInit == AlgInit /\ TermOff /\ AnalyzerOff /\ PatOff /\ FnOff

AlgebraSpec == AlgebraInit /\ [][AlgNext]_vars

PatternInit == PatInit /\ AlgOff /\ TermOff /\ AnalyzerOff /\ FnOff

PatSpec == PatternInit /\ [][PatNext]_vars

TypeFnInit == FnInit /\ AlgOff /\ TermOff /\ AnalyzerOff /\ PatOff

TypeFnSpec == TypeFnInit /\ [][FnNext]_vars

ClassifierInit == TermInit /\ AlgOff /\ AnalyzerOff /\ PatOff /\ FnOff

TermSpec == ClassifierInit /\ [][Classify]_vars

-----------------------------------------------------------------------------
(* Properties of the fact algebra.                                         *)

\* Number of occurrences of e in the sequence s.
RECURSIVE Count(_, _)
Count(e, s) ==
    IF s = <<>> THEN 0
    ELSE (IF Head(s) = e THEN 1 ELSE 0) + Count(e, Tail(s))

\* The two sequences hold the same elements the same number of times.
SameBag(s, t) ==
    /\ Len(s) = Len(t)
    /\ \A e \in SeqRange(s) \cup SeqRange(t) : Count(e, s) = Count(e, t)

\* Type-equality with the order of a union's members ignored.
TypeEquiv(a, b) ==
    IF IsUnion(a) /\ IsUnion(b) THEN SameBag(a.types, b.types) ELSE a = b

\* Equivalence of two CondFacts: same key sets, equal bitsets, and entries
\* equal up to the order of union members and of excluded types.
CondFactsEquiv(a, b) ==
    /\ DOMAIN a.facts = DOMAIN b.facts
    /\ DOMAIN a.vars = DOMAIN b.vars
    /\ DOMAIN a.excludes = DOMAIN b.excludes
    /\ DOMAIN a.types = DOMAIN b.types
    /\ \A k \in DOMAIN a.facts : a.facts[k] = b.facts[k]
    /\ \A k \in DOMAIN a.vars : TypeEquiv(a.vars[k], b.vars[k])
    /\ \A k \in DOMAIN a.types : TypeEquiv(a.types[k], b.types[k])
    /\ \A k \in DOMAIN a.excludes : SameBag(a.excludes[k], b.excludes[k])

\* C7 (as stated): the join of a CondFacts with itself is equivalent to it
\* in all four maps.
C7_JoinIdempotent ==
    (alg_pc = "or" /\ alg_lhs = alg_rhs) => CondFactsEquiv(alg_out, alg_lhs)

\* C7 (amended): the join of cf with itself has cf's key sets and cf's facts
\* bitsets, every vars and types entry t becomes the union [t, t], and every
\* excludes list is the list followed by itself; the result equals cf only
\* after the duplicates are removed.
C7_JoinDuplicates ==
    (alg_pc = "or" /\ alg_lhs = alg_rhs) =>
        /\ DOMAIN alg_out.facts = DOMAIN alg_lhs.facts
        /\ DOMAIN alg_out.vars = DOMAIN alg_lhs.vars
        /\ DOMAIN alg_out.types = DOMAIN alg_lhs.types
        /\ DOMAIN alg_out.excludes = DOMAIN alg_lhs.excludes
        /\ \A k \in DOMAIN alg_lhs.facts : alg_out.facts[k] = alg_lhs.facts[k]
        /\ \A k \in DOMAIN alg_lhs.vars :
              /\ alg_out.vars[k] = NewUnion(<<alg_lhs.vars[k], alg_lhs.vars[k]>>)
              /\ Fix(alg_out.vars[k]) = Fix(alg_lhs.vars[k])
        /\ \A k \in DOMAIN alg_lhs.types :
              alg_out.types[k] = NewUnion(<<alg_lhs.types[k], alg_lhs.types[k]>>)
        /\ \A k \in DOMAIN alg_lhs.excludes :
              /\ alg_out.excludes[k] = alg_lhs.excludes[k] \o alg_lhs.excludes[k]
              /\ SeqRange(alg_out.excludes[k]) = SeqRange(alg_lhs.excludes[k])

C7_Witness ==
    /\ alg_pc = "or"
    /\ alg_lhs = alg_rhs
    /\ "x" \in DOMAIN alg_lhs.vars
    /\ "x" \in DOMAIN alg_lhs.excludes
    /\ alg_lhs.excludes["x"] # <<>>
    /\ alg_out.excludes["x"] # alg_lhs.excludes["x"]

\* C8: the join is commutative: cf1 | cf2 and cf2 | cf1 have the same key sets
\* in every map, equal bitsets, and vars/types/excludes entries equal with the
\* order of members ignored.
C8_JoinCommutative ==
    alg_pc = "or" => CondFactsEquiv(alg_out, alg_swapped)

C8_Witness ==
    /\ alg_pc = "or"
    /\ "x" \in DOMAIN alg_lhs.vars \cap DOMAIN alg_rhs.vars
    /\ alg_lhs.vars["x"] # alg_rhs.vars["x"]
    /\ "x" \in DOMAIN alg_lhs.excludes \cap DOMAIN alg_rhs.excludes
    /\ alg_lhs.excludes["x"] # alg_rhs.excludes["x"]
    /\ alg_lhs.excludes["x"] # <<>> /\ alg_rhs.excludes["x"] # <<>>
    /\ DOMAIN alg_lhs.facts # DOMAIN alg_rhs.facts
    /\ alg_out # alg_swapped

\* The operands bind x to two distinct keyword types A and B.
DistinctKeywordVars ==
    /\ DOMAIN alg_lhs.vars = {"x"} /\ DOMAIN alg_rhs.vars = {"x"}
    /\ ~IsUnion(alg_lhs.vars["x"]) /\ ~IsUnion(alg_rhs.vars["x"])
    /\ alg_lhs.vars["x"] # alg_rhs.vars["x"]

\* C9 (as stated): the join of {x:A} and {x:B} yields x:A|B while the
\* composition {x:A} += {x:B} yields x:B.
C9_LaterWriteDominates ==
    /\ (alg_pc = "or" /\ DistinctKeywordVars) =>
          alg_out.vars["x"] = NewUnion(<<alg_lhs.vars["x"], alg_rhs.vars["x"]>>)
    /\ (alg_pc = "add" /\ DistinctKeywordVars) =>
          alg_out.vars["x"] = alg_rhs.vars["x"]

\* C9 (amended): for distinct keyword types A and B both the join of {x:A}
\* and {x:B} and the composition {x:A} += {x:B} yield x: A|B.
C9_BothWiden ==
    (alg_pc \in {"or", "add"} /\ DistinctKeywordVars) =>
        alg_out.vars["x"] = NewUnion(<<alg_lhs.vars["x"], alg_rhs.vars["x"]>>)

C9_Witness ==
    /\ alg_pc = "add"
    /\ DistinctKeywordVars
    /\ alg_lhs.vars["x"] = TString
    /\ alg_rhs.vars["x"] = TNull
    /\ alg_out.vars["x"] = NewUnion(<<TString, TNull>>)

\* C10: composing the empty CondFacts onto cf leaves cf unchanged, and
\* composing cf onto the empty CondFacts yields cf, in all four maps.
C10_ComposeIdentity ==
    (alg_pc = "add" /\ alg_rhs = CondFactsDefault) =>
        /\ alg_out = alg_lhs
        /\ alg_swapped = alg_lhs

C10_Witness ==
    /\ alg_pc = "add"
    /\ alg_rhs = CondFactsDefault
    /\ DOMAIN alg_lhs.facts # {} /\ DOMAIN alg_lhs.vars # {}
    /\ DOMAIN alg_lhs.excludes # {} /\ DOMAIN alg_lhs.types # {}
    /\ IsUnion(alg_lhs.vars["x"])
    /\ alg_swapped = alg_lhs

-----------------------------------------------------------------------------
(* Reference semantics of a statement list: the ways its execution can     *)
(* leave it.  "term": by return, throw or continue; "exit": by break, to   *)
(* the code after the switch; "next": by running off its end.              *)

RECURSIVE StmtOutcomes(_)
RECURSIVE ListOutcomes(_)
StmtOutcomes(s) ==
    CASE s.kind \in {"Return", "Throw", "Continue"} -> {"term"}
      [] s.kind = "Break" -> {"exit"}
      [] s.kind = "If" ->
           StmtOutcomes(s.kids[1])
           \cup (IF HasAlt(s) THEN StmtOutcomes(s.kids[2]) ELSE {"next"})
      [] s.kind = "Block" -> ListOutcomes(s.kids)
      [] OTHER -> {"next"}

ListOutcomes(ss) ==
    IF ss = <<>> THEN {"next"}
    ELSE LET o == StmtOutcomes(Head(ss))
         IN  (o \ {"next"}) \cup (IF "next" \in o THEN ListOutcomes(Tail(ss)) ELSE {})

CannotFallOut(ss) == ListOutcomes(ss) = {"term"}

\* C5: the classifier returns true if and only if executing the statement
\* list cannot fall out of its bottom (return/throw/continue terminate, break
\* falls through, an if terminates only with an else and two terminating
\* arms, and the statements after a non-terminating if still count).
C5_TerminatorIffCannotFallOut ==
    term_pc = "done" => (term_result <=> CannotFallOut(term_body))

-----------------------------------------------------------------------------
(* Properties of the analyzer routines.                                    *)

\* The if analyzer hoists: the consequent ends with return/throw, or its
\* child ended unreachable while the alternate is absent or did not.
IfHoists ==
    \/ EndsWithRetStmt(node.cons)
    \/ /\ locals.cons_ends_with_unreachable
       /\ locals.alt_ends_with_unreachable # Some(TRUE)

\* C1: after the if analyzer, the false-side facts of the test have been
\* composed into cur_facts.true_facts exactly when the analyzer hoists;
\* otherwise cur_facts is the entry facts; cur_facts.false_facts is always
\* the entry false facts.
C1_IfHoist ==
    (pc = "done" /\ node.kind = "IfStmt") =>
        /\ cur_facts.false_facts = entry.cur_facts.false_facts
        /\ IfHoists =>
              cur_facts.true_facts =
                  AddAssign(entry.cur_facts.true_facts, locals.facts_from_test.false_facts)
        /\ ~IfHoists => cur_facts = entry.cur_facts

C1_Witness ==
    /\ pc = "done"
    /\ node.kind = "IfStmt"
    /\ node.test = ExprEq("x", TNull)
    /\ ~EndsWithRetStmt(node.cons)
    /\ locals.cons_ends_with_unreachable
    /\ locals.alt_ends_with_unreachable = Some(FALSE)
    /\ entry.cur_facts.true_facts.excludes = One("x", <<TNumber>>)
    /\ cur_facts.true_facts.excludes = One("x", <<TNumber, TNull>>)

\* Scenario S1: `if (x === null) { return; }` analyzed with empty cur_facts,
\* x declared `string | null`.
ScenarioS1 ==
    /\ pc = "done"
    /\ node = IfStmt(ExprEq("x", TNull), SBlock(<<SReturn>>), None)
    /\ entry.cur_facts = FactsDefault
    /\ scope_vars["x"] = NewUnion(<<TString, TNull>>)

\* C2 (as stated): after S1, cur_facts.true_facts.vars[x] is string.
C2_S1VarIsString ==
    ScenarioS1 =>
        /\ "x" \in DOMAIN cur_facts.true_facts.vars
        /\ cur_facts.true_facts.vars["x"] = TString

\* C2 (amended): after S1, cur_facts.true_facts.excludes[x] is [null] and
\* cur_facts.true_facts.vars has no binding for x.
C2_S1NullExcluded ==
    ScenarioS1 =>
        /\ cur_facts.true_facts.excludes = One("x", <<TNull>>)
        /\ cur_facts.true_facts.vars = EmptyMap
        /\ locals.facts_from_test.true_facts.vars = One("x", TNull)

C2_Witness ==
    /\ ScenarioS1
    /\ "x" \in DOMAIN cur_facts.true_facts.excludes

\* The facts of `before` are still in `after`: every name keeps its bits,
\* its binding, its excluded types (as a prefix) and every type id its binding.
FactsKept(before, after) ==
    /\ \A k \in DOMAIN before.facts :
          k \in DOMAIN after.facts /\ before.facts[k] \subseteq after.facts[k]
    /\ \A k \in DOMAIN before.vars : k \in DOMAIN after.vars
    /\ \A k \in DOMAIN before.types : k \in DOMAIN after.types
    /\ \A k \in DOMAIN before.excludes :
          /\ k \in DOMAIN after.excludes
          /\ Len(before.excludes[k]) <= Len(after.excludes[k])
          /\ SubSeq(after.excludes[k], 1, Len(before.excludes[k])) = before.excludes[k]

\* C3: when the if, switch, conditional-expression or loop analyzer has
\* returned, every fact that was in cur_facts at entry is still in cur_facts.
C3_EntryFactsKept ==
    pc = "done" =>
        /\ FactsKept(entry.cur_facts.true_facts, cur_facts.true_facts)
        /\ FactsKept(entry.cur_facts.false_facts, cur_facts.false_facts)

\* C4: the loop analyzer eventually returns.
C4_LoopTerminates == <>(pc = "done")

\* C6: after a switch without a case-test error, in_unreachable is true if
\* every case body cannot fall out of its bottom, keeps its prior value if
\* some case body can, and is never cleared.
C6_SwitchUnreachable ==
    (pc = "done" /\ node.kind = "SwitchStmt" /\ ~locals.errored) =>
        /\ (\A i \in 1..Len(node.cases) : CannotFallOut(node.cases[i].cons))
              => ctx.in_unreachable
        /\ (\E i \in 1..Len(node.cases) : ~CannotFallOut(node.cases[i].cons))
              => ctx.in_unreachable = entry.ctx.in_unreachable
        /\ entry.ctx.in_unreachable => ctx.in_unreachable

\* C11: after self.override_vars_using(r), every key of r.vars maps in
\* self.vars to exactly r's type, every other key of self.vars keeps its
\* type, and self.facts, self.excludes and self.types are unchanged.
C11_OverrideExact ==
    alg_pc = "override" =>
        /\ DOMAIN alg_out.vars = DOMAIN alg_lhs.vars \cup DOMAIN alg_rhs.vars
        /\ \A k \in DOMAIN alg_rhs.vars : alg_out.vars[k] = alg_rhs.vars[k]
        /\ \A k \in DOMAIN alg_lhs.vars \ DOMAIN alg_rhs.vars :
              alg_out.vars[k] = alg_lhs.vars[k]
        /\ alg_out.facts = alg_lhs.facts
        /\ alg_out.excludes = alg_lhs.excludes
        /\ alg_out.types = alg_lhs.types

C11_Witness ==
    /\ alg_pc = "override"
    /\ alg_lhs.vars = One("x", TString)
    /\ alg_rhs.vars = One("x", TNull)
    /\ alg_rhs.facts = One("x", Truthy)
    /\ alg_out.vars = One("x", TNull)

\* C12: !f swaps true_facts and false_facts and changes nothing else, and
\* !(!f) equals f.
C12_NotInvolution ==
    /\ alg_pc = "not" => (alg_out = alg_rhs /\ alg_swapped = alg_lhs)
    /\ alg_pc = "notnot" => (alg_out = alg_lhs /\ alg_swapped = alg_rhs)

C12_Witness ==
    /\ alg_pc = "notnot"
    /\ alg_lhs # alg_rhs
    /\ alg_lhs.vars = One("x", TString)
    /\ alg_rhs.excludes = One("x", <<TNull>>)
    /\ alg_out = alg_lhs

-----------------------------------------------------------------------------
(* Properties of the conditional-expression analyzer.                      *)

\* The errors a ternary reports for its branches.
BranchErrorsReported ==
    /\ (~node.cons.ok) <=> (\E i \in 1..Len(storage) : storage[i] = "ConsError")
    /\ (~node.alt.ok) <=> (\E i \in 1..Len(storage) : storage[i] = "AltError")

\* C13 (as stated): type-equal branches give the consequent type; otherwise
\* the result is the fixed union of adjust_ternary_type([cons, alt]) on every
\* call; an erroring branch contributes `any` and its error is reported.
C13_AlwaysAdjusted ==
    (pc = "done" /\ node.kind = "CondExpr") =>
        LET c == IF node.cons.ok THEN node.cons.ty ELSE TAny
            a == IF node.alt.ok THEN node.alt.ty ELSE TAny
        IN  /\ BranchErrorsReported
            /\ type_eq(c, a) => locals.ty = c
            /\ ~type_eq(c, a) => locals.ty = Fix(NewUnion(adjust_ternary_type(<<c, a>>)))

\* C13 (amended): as above, but adjust_ternary_type is applied only when no
\* type annotation is supplied; with an annotation the result is the fixed
\* union of the two branch types themselves.
C13_AdjustedWithoutAnnotation ==
    (pc = "done" /\ node.kind = "CondExpr") =>
        LET c == IF node.cons.ok THEN node.cons.ty ELSE TAny
            a == IF node.alt.ok THEN node.alt.ty ELSE TAny
        IN  /\ BranchErrorsReported
            /\ type_eq(c, a) => locals.ty = c
            /\ (~type_eq(c, a) /\ node.type_ann = None) =>
                  locals.ty = Fix(NewUnion(adjust_ternary_type(<<c, a>>)))
            /\ (~type_eq(c, a) /\ node.type_ann # None) =>
                  locals.ty = Fix(NewUnion(<<c, a>>))

C13_Witness ==
    /\ pc = "done"
    /\ node.kind = "CondExpr"
    /\ node.type_ann # None
    /\ node.cons = BranchOk(TNumberTuple)
    /\ ~node.alt.ok
    /\ locals.ty = NewUnion(<<TNumberTuple, TAny>>)
    /\ storage = <<"AltError">>

\* Scenario S2: `cond ? [1, 2] : ["a"]` with no type annotation.
ScenarioS2 ==
    /\ pc = "done"
    /\ node.kind = "CondExpr"
    /\ node.cons = BranchOk(TNumberTuple)
    /\ node.alt = BranchOk(TStringTuple)
    /\ node.type_ann = None

\* C14 (as stated): the result of S2 is the single type Array<number | string>.
C14_S2SingleArray ==
    ScenarioS2 => locals.ty = Array(NewUnion(<<TNumber, TString>>))

\* C14 (amended): in S2 each tuple becomes an array of the union of its own
\* element types and the result is the union Array<number> | Array<string>.
C14_S2UnionOfArrays ==
    ScenarioS2 => locals.ty = NewUnion(<<Array(TNumber), Array(TString)>>)

C14_Witness ==
    /\ ScenarioS2
    /\ IsUnion(locals.ty)
    /\ Len(locals.ty.types) = 2

-----------------------------------------------------------------------------
(* Properties of the assignment to an identifier pattern.                  *)

InCurrentScope == pat_in.name \in DOMAIN pat_in.scope.vars
InParentScope == pat_in.name \in DOMAIN pat_in.scope.parent

\* C15: when the identifier is in neither the current nor a parent scope, an
\* UndefinedSymbol error is emitted, unless ignore_lhs_errors is set or the
\* identifier is being declared under allow_ref_declaring, and then no error
\* is emitted.
C15_UndefinedSymbolEmitted ==
    (pat_pc = "done" /\ ~InCurrentScope /\ ~InParentScope) =>
        LET suppressed ==
                \/ pat_in.opts.ignore_lhs_errors
                \/ (pat_in.allow_ref_declaring /\ pat_in.name \in pat_in.scope.declaring)
        IN  IF suppressed
            THEN pat_out.ret = "Ok" /\ pat_out.reported = <<>>
            ELSE \/ pat_out.ret = "UndefinedSymbol"
                 \/ "UndefinedSymbol" \in SeqRange(pat_out.reported)

\* The declared type of the assigned variable at entry (None when it has none).
DeclaredOfTarget ==
    IF InCurrentScope THEN pat_in.scope.vars[pat_in.name].ty
    ELSE pat_in.scope.parent[pat_in.name].ty

\* The type the assignment narrows the variable to.
NarrowedOfTarget ==
    IF DeclaredOfTarget = None THEN pat_in.ty
    ELSE NarrowedTypeOfAssignment(DeclaredOfTarget[1], ApplyNonNullish(pat_in.ty))

\* The scope update the assignment is to make.
ScopeUpdated ==
    /\ scope.parent = pat_in.scope.parent
    /\ pat_in.name \in DOMAIN scope.vars
    /\ scope.vars[pat_in.name].actual_ty = Some(NarrowedOfTarget)
    /\ scope.vars[pat_in.name].ty = DeclaredOfTarget
    /\ InCurrentScope =>
          /\ scope.vars[pat_in.name].is_actual_type_modified_in_loop =
                (pat_in.scope.vars[pat_in.name].is_actual_type_modified_in_loop
                 \/ pat_in.is_in_loop)
          /\ scope.vars[pat_in.name].copied = pat_in.scope.vars[pat_in.name].copied
    /\ ~InCurrentScope => scope.vars[pat_in.name].copied

UpdateSkipped ==
    /\ DeclaredOfTarget # None
    /\ \/ DeclaredOfTarget[1] = TAny
       \/ IsNullish(pat_in.ty)
       \/ IsNever(ApplyNonNullish(pat_in.ty))

-----------------------------------------------------------------------------
(* Properties of the switch and if analyzers.                              *)

\* The facts cur_facts holds when the test of case i is evaluated: the true
\* side was taken before the loop and both sides after every case.
SwitchHeld(i) ==
    IF i = 1 THEN [entry.cur_facts EXCEPT !.true_facts = CondFactsDefault]
    ELSE FactsDefault

\* The facts drained from cur_facts after the test `discriminant === test`
\* of case i (nothing is recorded for a default case).
CaseTestFacts(i) ==
    IF node.cases[i].test = None THEN SwitchHeld(i)
    ELSE AddTypeFact(SwitchHeld(i), node.discriminant,
                     node.cases[i].test[1], node.cases[i].test[1])

\* The pre-switch true facts composed with the false-side facts of the cases
\* before case i whose body ends with return, throw or continue.
RECURSIVE ExpectedBase(_)
ExpectedBase(i) ==
    IF i = 1 THEN entry.cur_facts.true_facts
    ELSE IF EndsWithRet(node.cases[i - 1].cons)
    THEN AddAssign(ExpectedBase(i - 1), CaseTestFacts(i - 1).false_facts)
    ELSE ExpectedBase(i - 1)

\* The cases before the first case whose test errors (all of them if none).
CasesBeforeError ==
    {i \in 1..Len(node.cases) : \A j \in 1..i : ~node.cases[j].bad}

RECURSIVE ExpectedFalse(_)
ExpectedFalse(n) ==
    IF n = 0 THEN CondFactsDefault
    ELSE IF EndsWithRet(node.cases[n].cons) \/ n = Len(node.cases)
    THEN AddAssign(ExpectedFalse(n - 1), CaseTestFacts(n).false_facts)
    ELSE ExpectedFalse(n - 1)

C19_StopsOnError ==
    (pc = "done" /\ node.kind = "SwitchStmt"
        /\ \E i \in 1..Len(node.cases) : node.cases[i].bad) =>
        /\ Len(locals.visited) = Cardinality(CasesBeforeError)
        /\ locals.reported = <<"CaseTestError">>
        /\ storage = <<"CaseTestError">>
        /\ locals.errored
        /\ ctx.in_unreachable = entry.ctx.in_unreachable

C19_Witness ==
    /\ pc = "done"
    /\ node.kind = "SwitchStmt"
    /\ node.cases = <<CaseLit(TNull, <<SReturn>>), CaseBad(<<SReturn>>),
                      CaseLit(TNull, <<SReturn>>)>>
    /\ Len(locals.visited) = 1
    /\ ~entry.ctx.in_unreachable
    /\ ~ctx.in_unreachable

\* C20: when the consequent does not end with return/throw, the if analyzer
\* sets in_unreachable exactly when both the consequent's child and an
\* existing alternate's child ended unreachable, and then installs no facts;
\* in no other case does it change in_unreachable.
C20_IfUnreachable ==
    (pc = "done" /\ node.kind = "IfStmt") =>
        LET both == /\ ~EndsWithRetStmt(node.cons)
                    /\ locals.cons_ends_with_unreachable
                    /\ node.alt # None
                    /\ locals.alt_ends_with_unreachable = Some(TRUE)
        IN  /\ both => (ctx.in_unreachable /\ cur_facts = entry.cur_facts)
            /\ ~both => ctx.in_unreachable = entry.ctx.in_unreachable
            /\ ctx.should_store_truthy_for_access = entry.ctx.should_store_truthy_for_access

C20_Witness ==
    /\ pc = "done"
    /\ node.kind = "IfStmt"
    /\ node.test = ExprEq("x", TNull)
    /\ ~EndsWithRetStmt(node.cons)
    /\ locals.cons_ends_with_unreachable
    /\ locals.alt_ends_with_unreachable = Some(TRUE)
    /\ ~entry.ctx.in_unreachable
    /\ ctx.in_unreachable
    /\ cur_facts = entry.cur_facts

-----------------------------------------------------------------------------
(* Properties of the loop fixed point.                                     *)

\* The body facts of the pass before the i-th logged pass (the empty CondFacts
\* before the first pass).
PrevBodyFacts(i) ==
    IF i = 1 THEN CondFactsDefault ELSE lp.passes[i - 1].facts_from_body

\* C21: every pass with last = false runs with errors ignored; last becomes
\* true exactly when a pass's body facts equal those of the pass before it;
\* the pass that runs with last = true inherits ignore_errors unchanged, is
\* the final pass and is preceded by at least one other pass; errors are
\* reported by the final pass only.
C21_PassProtocol ==
    (node.kind = "Loop" /\ pc \in {"loop", "done"}) =>
        LET n == Len(lp.passes)
        IN  /\ \A i \in 1..n :
                  IF lp.passes[i].last
                  THEN /\ i = n
                       /\ pc = "done"
                       /\ lp.passes[i].ctx.ignore_errors = ctx.ignore_errors
                  ELSE lp.passes[i].ctx.ignore_errors
            /\ pc = "loop" =>
                  /\ storage = <<>>
                  /\ n < MaxPassLog =>
                        (lp.last <=>
                            (n >= 1 /\ lp.passes[n].facts_from_body = PrevBodyFacts(n)))
                  /\ n = MaxPassLog =>
                        (lp.last <=>
                            lp.passes[n].facts_from_body = lp.passes[n - 1].facts_from_body)
            /\ pc = "done" =>
                  /\ n >= 2
                  /\ lp.passes[n].last
                  /\ ~lp.passes[n - 1].last
                  /\ lp.passes[n - 1].facts_from_body = lp.facts_of_prev_body_eval
                  /\ storage = IF node.test = Some(ExprBad) /\ ~ctx.ignore_errors
                               THEN <<"TestError">> ELSE <<>>

C21_Witness ==
    /\ pc = "done"
    /\ node.kind = "Loop"
    /\ node.test = Some(ExprBad)
    /\ lp.passes[1].ctx.ignore_errors
    /\ ~lp.passes[2].ctx.ignore_errors
    /\ lp.passes[2].last
    /\ lp.passes[1].facts_from_body # CondFactsDefault
    /\ storage = <<"TestError">>

\* C22: in every pass with a test, the test is evaluated with
\* should_store_truthy_for_access set.
C22_TestRecordsTruthy ==
    node.kind = "Loop" =>
        \A i \in 1..Len(lp.passes) :
            lp.passes[i].test_ctx # None =>
                lp.passes[i].test_ctx[1].should_store_truthy_for_access

\* C23: after the loop scope.vars is the snapshot taken at loop entry; during
\* the analysis passes the snapshot is kept aside and what the body assigned
\* stays in scope.vars.
C23_ScopeRestored ==
    node.kind = "Loop" =>
        /\ pc = "done" => (scope_vars = ScopeVarsInit /\ lp.orig_vars = None)
        /\ pc = "loop" =>
              /\ lp.orig_vars = Some(ScopeVarsInit)
              /\ (Len(lp.passes) >= 1 /\ node.assign # None) =>
                    scope_vars = MapInsert(ScopeVarsInit, "x", node.assign[1])

C23_Witness ==
    /\ pc = "done"
    /\ node.kind = "Loop"
    /\ node.assign = Some(TNumber)
    /\ scope_vars["x"] = NewUnion(<<TString, TNull>>)

\* C24: the body facts of every pass carry no excludes, prev_facts.excludes
\* stays the excludes of the true facts at loop entry, and those are the
\* excludes installed after the loop.
C24_ExcludesDoNotAccumulate ==
    (node.kind = "Loop" /\ pc \in {"loop", "done"}) =>
        /\ lp.prev_facts.excludes = entry.cur_facts.true_facts.excludes
        /\ \A i \in 1..Len(lp.passes) :
              /\ lp.passes[i].facts_from_body.excludes = EmptyMap
              /\ lp.passes[i].prev_facts.excludes = entry.cur_facts.true_facts.excludes
        /\ pc = "done" =>
              cur_facts.true_facts.excludes = entry.cur_facts.true_facts.excludes

C24_Witness ==
    /\ pc = "done"
    /\ node.kind = "Loop"
    /\ entry.cur_facts.true_facts.excludes = One("x", <<TNumber>>)
    /\ node.body[ViewOf(entry.cur_facts.true_facts)].excludes = One("x", <<TNull>>)
    /\ cur_facts.true_facts.excludes = One("x", <<TNumber>>)

\* The facts bits of a never shrink into those of b.
FactsGain(a, b) ==
    \A k \in DOMAIN a.facts : k \in DOMAIN b.facts /\ a.facts[k] \subseteq b.facts[k]

\* prev_facts before the i-th logged pass, where the log still holds it.
PrevFactsBefore(i) ==
    IF i > 1 THEN Some(lp.passes[i - 1].prev_facts)
    ELSE IF Len(lp.passes) < MaxPassLog THEN Some(entry.cur_facts.true_facts)
    ELSE None

\* C30: after every non-final pass prev_facts.vars[k] is exactly the body's
\* type for each k in the body's vars, and prev_facts.facts only gains bits;
\* the final pass composes the body's vars with `+=`, so the vars installed
\* after the loop are the fixed union of the last two passes' values.
C30_VarsOverridden ==
    (node.kind = "Loop" /\ pc \in {"loop", "done"}) =>
        LET n == Len(lp.passes)
        IN  /\ \A i \in 1..n :
                  /\ ~lp.passes[i].last =>
                        \A k \in DOMAIN lp.passes[i].facts_from_body.vars :
                            /\ k \in DOMAIN lp.passes[i].prev_facts.vars
                            /\ lp.passes[i].prev_facts.vars[k]
                                  = lp.passes[i].facts_from_body.vars[k]
                  /\ PrevFactsBefore(i) # None =>
                        FactsGain(PrevFactsBefore(i)[1], lp.passes[i].prev_facts)
            /\ pc = "done" =>
                  \A k \in DOMAIN lp.passes[n].facts_from_body.vars :
                      /\ k \in DOMAIN cur_facts.true_facts.vars
                      /\ cur_facts.true_facts.vars[k] =
                            IF k \in DOMAIN lp.passes[n - 1].facts_from_body.vars
                            THEN Fix(NewUnion(<<lp.passes[n - 1].facts_from_body.vars[k],
                                               lp.passes[n].facts_from_body.vars[k]>>))
                            ELSE IF k \in DOMAIN lp.passes[n - 1].prev_facts.vars
                            THEN Fix(NewUnion(<<lp.passes[n - 1].prev_facts.vars[k],
                                               lp.passes[n].facts_from_body.vars[k]>>))
                            ELSE lp.passes[n].facts_from_body.vars[k]

C30_Witness ==
    /\ pc = "done"
    /\ node.kind = "Loop"
    /\ entry.cur_facts.true_facts.vars = One("x", TString)
    /\ lp.passes[1].facts_from_body.vars = One("x", TNull)
    /\ lp.passes[1].prev_facts.vars = One("x", TNull)
    /\ cur_facts.true_facts.vars = One("x", TNull)

-----------------------------------------------------------------------------
(* Properties of the type routines.                                        *)

\* The position in `types` of the candidate that member number ai of the
\* flattened list came from.
RECURSIVE OwnerOf(_, _)
OwnerOf(types, ai) ==
    IF ai <= Len(IterUnion(Head(types))) THEN 1
    ELSE 1 + OwnerOf(Tail(types), ai - Len(IterUnion(Head(types))))

\* The positions of the flattened members that extend no candidate other than
\* the one they came from.
WidestPositions(types) ==
    LET members == FlatMembers(types)
    IN  {ai \in 1..Len(members) :
            ~\E bi \in 1..Len(types) :
                bi # OwnerOf(types, ai) /\ Extends(members[ai], types[bi]) = Some(TRUE)}

\* C25: remove_child_types discards a member exactly when it extends
\* (Some(true)) a candidate other than the one it came from, and returns the
\* original list when every member would be discarded.
C25_KeepsWidest ==
    fn_pc = "removed" =>
        LET kept == KeepFrom(FlatMembers(fn_in.types), WidestPositions(fn_in.types), 1)
        IN  fn_out = IF kept = <<>> THEN fn_in.types ELSE kept

\* C29: a member that extends no candidate other than its own is still among
\* the members of the result of remove_child_types.
C29_OwnCandidateKeepsMembers ==
    fn_pc = "removed" =>
        \A ai \in WidestPositions(fn_in.types) :
            FlatMembers(fn_in.types)[ai] \in SeqRange(FlatMembers(fn_out))

\* The positions of the flattened members that are literal or null, or that
\* no other member in need of work, not type-equal to them, extends.
NarrowestPositions(types) ==
    LET members == FlatMembers(types)
    IN  {ai \in 1..Len(members) :
            \/ ~need_work(members[ai])
            \/ ~\E bi \in 1..Len(members) :
                    /\ bi # ai
                    /\ need_work(members[bi])
                    /\ ~type_eq(members[bi], members[ai])
                    /\ Extends(members[bi], members[ai]) = Some(TRUE)}

\* C26: downcast_types discards a member that is not a literal or null
\* whenever some other such member, not type-equal to it, extends it, wherever
\* that member stands; literal and null members are kept and discard nothing.
C26_KeepsNarrowest ==
    fn_pc = "downcast" =>
        LET kept == KeepFrom(FlatMembers(fn_in.types), NarrowestPositions(fn_in.types), 1)
        IN  fn_out = IF kept = <<>> THEN fn_in.types ELSE kept

\* C28: for a non-union src the result is never when the property is missing
\* or the fact refines its type to never, and src otherwise; for a union src
\* it is the single surviving member, a union of the two or more survivors,
\* or never when no member survives.
C28_NarrowResult ==
    fn_pc = "narrowed" =>
        LET src == fn_in.src
            prop == AccessProperty(src, fn_in.property)
            ruled_out ==
                \/ prop.res = "NoSuchProperty"
                \/ /\ prop.res = "Ok"
                   /\ fn_in.type_facts # None
                   /\ is_never(ApplyTypeFacts(fn_in.type_facts[1], prop.ty))
        IN  IF ~IsUnion(src)
            THEN fn_out = IF ruled_out THEN NeverOf(src) ELSE src
            ELSE LET survivors ==
                        DedupType(RetainNotNever(
                            [i \in 1..Len(src.types) |->
                                narrow_types_with_property(src.types[i], fn_in.property,
                                                           fn_in.type_facts)]))
                 IN  /\ Len(survivors) = 0 => is_never(fn_out)
                     /\ Len(survivors) = 1 => fn_out = survivors[1]
                     /\ Len(survivors) >= 2 =>
                           (IsUnion(fn_out) /\ fn_out.types = survivors)
                     /\ IsUnion(fn_out) => Len(fn_out.types) >= 2

-----------------------------------------------------------------------------
(* Properties of the assignment to a default pattern.                      *)

\* The assignment of ty to the left side, from the scope at entry.
FirstAssign ==
    TryAssignIdent(pat_in.scope, pat_in, pat_in.name, pat_in.ty, pat_in.opts,
                   pat_in.is_in_loop, pat_in.is_module)

\* The assignment of the default's type to the left side, after the first.
SecondAssign ==
    TryAssignIdent(FirstAssign.scope, pat_in, pat_in.name, pat_in.default[1].ty,
                   pat_in.opts, pat_in.is_in_loop, pat_in.is_module)

\* C27: for `lhs = default` the routine returns Ok; the assignment of ty is
\* made and its error reported whether or not the default evaluates; the
\* assignment of the default's type is made and its error reported whether or
\* not the first assignment failed; an error of the default is reported.
C27_BothAttempted ==
    pat_pc = "done_default" =>
        /\ pat_out.ret = "Ok"
        /\ IF pat_in.default[1].ok
           THEN /\ scope = SecondAssign.scope
                /\ pat_out.reported = Reported(FirstAssign) \o Reported(SecondAssign)
           ELSE /\ scope = FirstAssign.scope
                /\ pat_out.reported = Reported(FirstAssign) \o <<"DefaultError">>

C27_Witness ==
    /\ pat_pc = "done_default"
    /\ pat_in.ty = TNull
    /\ pat_in.default = Some(BranchOk(TString))
    /\ pat_in.name \in DOMAIN pat_in.scope.vars
    /\ pat_in.scope.vars[pat_in.name].actual_ty = Some(NewUnion(<<TString, TNumber>>))
    /\ pat_out.reported = <<"AssignFailed">>
    /\ scope.vars[pat_in.name].actual_ty = Some(TString)

=============================================================================
